---------------------------- MODULE Spec2Model ----------------------------
(***************************************************************************)
(* Model of the neighbor-guard edge controller: the v5 per-entry-point     *)
(* alarm state machines (services/state_machine_v5.py), the coordinator    *)
(* that federates them, and the command handlers and entry-delay timer     *)
(* threads of api/manager.py that drive them.                              *)
(*                                                                         *)
(* Command handlers run on the single asyncio event-loop thread and are    *)
(* atomic with respect to each other.  Every EntryDelayTimer runs its own  *)
(* daemon thread; the steps of a timer thread interleave freely with the   *)
(* handlers, since the code takes no lock around the machines.             *)
(***************************************************************************)
EXTENDS Integers, Sequences, FiniteSets, TLC

VARIABLES
    house_mode,     \* SecurityCoordinator._house_mode
    user_mode,      \* SecurityCoordinator._user_mode
    entry_points,   \* AppState.entry_points: configured id -> entry_delay_away_sec
    sm,             \* SecurityCoordinator._entry_points: id -> EntryPointStateMachine
    global_events,  \* SecurityCoordinator._global_events
    entry_timers,   \* AppState.entry_timers: id -> EntryDelayTimer fields
    waiting,        \* ids whose timer thread is blocked in _stop_event.wait
    running,        \* id -> bag of timer threads that left wait() by timeout
    alarm_sm,       \* an AlarmStateMachine (services/alarm_sm.py)
    debounce,       \* a DebounceFilter (services/signal_pipeline.py)
    pipeline,       \* a SignalPipeline around alarm_sm and debounce
    expiry_thread,  \* where the timer thread is in trigger_entry_delay_expired
    output,         \* an OutputManager (services/output_channels.py)
    context_checker,
                    \* the recent_signals given to a ContextEvidenceChecker
                    \* (services/workflow_router.py) and its last answer
    direction_inferencer
                    \* AppState.direction_inferencer and the from_inside of
                    \* the last door_open

\* The components followed apart from the coordinator and its timers: the
\* handlers of the model take from_inside as an input of the request.
side == <<alarm_sm, debounce, pipeline, expiry_thread, output,
          context_checker, direction_inferencer>>

vars == <<house_mode, user_mode, entry_points, sm, global_events,
          entry_timers, waiting, running, side>>

-----------------------------------------------------------------------------
(* Bounds of the model *)

MaxSignals == 2     \* signals held in open events and sealed records together
MaxEvents  == 1     \* longest _global_events list explored
MaxRunning == 1     \* timer threads past wait() at one time
MaxLog == 2         \* longest _global_events list of the coordinator on its own
MaxLogSignals == 3  \* signals held in its open events and records together
MaxRetries == 2     \* largest max_retries of a CloudOutputChannel
MaxSends == 2       \* send_event calls, and sends counted by one channel
max_queue_size == 2 \* CloudOutputChannel.max_queue_size, 100 in the code
max_history == 3    \* DirectionInferencer.max_history, 100 in the code

-----------------------------------------------------------------------------
(* Enumerations *)

GLOBAL == "_global"

EntryPointIds == {GLOBAL, "ep_front"}

ConfigurableIds == EntryPointIds \ {GLOBAL}

\* AppState.sensors: the entry points that the installed sensors are bound to
SensorBindings == {"ep_front"}

AlarmState == {"quiet", "attention", "pre", "pending", "triggered"}

UserMode == {"alert", "quiet"}

HouseMode == {"disarmed", "home", "away", "night_occupied", "night_perimeter"}

DefaultDelay == 30

Delays == {0}

\* One representative of every class of input that the v5 handlers tell
\* apart, plus the life-safety signals accepted by trigger_sensor.
TriggerInputs ==
    { [signal_type |-> "glass_break",     zone_type |-> "perimeter",  from_inside |-> FALSE],
      [signal_type |-> "person_detected", zone_type |-> "exterior",   from_inside |-> FALSE],
      [signal_type |-> "door_open",       zone_type |-> "entry_exit", from_inside |-> FALSE],
      [signal_type |-> "door_open",       zone_type |-> "entry_exit", from_inside |-> TRUE],
      [signal_type |-> "motion_active",   zone_type |-> "interior",   from_inside |-> FALSE],
      [signal_type |-> "smoke_detected",  zone_type |-> "interior",   from_inside |-> FALSE],
      [signal_type |-> "co_detected",     zone_type |-> "interior",   from_inside |-> FALSE] }

\* sm_signal_map of trigger_sensor: the signal types the v5 machines know.
SMSignalTypes == {"person_detected", "vehicle_detected", "door_open",
                  "door_close", "motion_active", "glass_break"}

LifeSafetySignals == {"smoke_detected", "co_detected", "fire_alarm"}

-----------------------------------------------------------------------------
(* EntryPointStateMachine (state_machine_v5.py) *)

\* The Signal handed to the coordinator by trigger_sensor.
SMSignal(entry_point_id, inp) ==
    [entry_point_id |-> entry_point_id, zone_type |-> inp.zone_type,
     signal_type |-> inp.signal_type, from_inside |-> inp.from_inside]

\* EntryPointStateMachine.__init__
NewMachine(hm, um, delay) ==
    [state |-> "quiet", house_mode |-> hm, user_mode |-> um,
     entry_delay_sec |-> delay, pending_started |-> FALSE,
     event_start |-> FALSE, event_signals |-> <<>>]

\* What a handler returns: the machine after the call, the TransitionResult
\* fields, whether on_state_change was invoked, and the EventRecord (if any).
Outcome(m, success, from, to, notified, recs) ==
    [m |-> m, success |-> success, from |-> from, to |-> to,
     notified |-> notified, recs |-> recs]

\* An EventRecord that would keep the state in which the event was sealed.
EventRecordKeepingState(ep, start_state, end_reason, signals) ==
    [entry_point_id |-> ep, start_state |-> start_state,
     end_state |-> start_state, end_reason |-> end_reason, signals |-> signals]

\* EventRecord, as built by _record_and_return_quiet and _to_attention
EventRecord(ep, start_state, end_reason, signals) ==
    [entry_point_id |-> ep, start_state |-> start_state, end_state |-> "quiet",
     end_reason |-> end_reason, signals |-> signals]

\* _start_event: the start time is set only if none is set; the signal is
\* always appended.
StartEvent(m, signal) ==
    [m EXCEPT !.event_start = TRUE,
              !.event_signals = Append(@, signal)]

\* _stay_quiet: nothing changes, the result reports the current state.
StayQuiet(m) == Outcome(m, FALSE, m.state, m.state, FALSE, <<>>)

\* A recording that would report the signal to on_state_change.
RecordSignalNotifying(m, signal) ==
    Outcome([m EXCEPT !.event_signals = Append(@, signal)],
            TRUE, m.state, m.state, TRUE, <<>>)

\* The "signal recorded" branches of the PRE / PENDING / TRIGGERED handling.
RecordSignal(m, signal) ==
    Outcome([m EXCEPT !.event_signals = Append(@, signal)],
            TRUE, m.state, m.state, FALSE, <<>>)

\* _record_and_return_quiet
RecordAndReturnQuiet(m, ep, end_reason) ==
    Outcome([m EXCEPT !.state = "quiet", !.pending_started = FALSE,
                      !.event_start = FALSE, !.event_signals = <<>>],
            TRUE, m.state, "quiet", TRUE,
            << EventRecord(ep, m.state, end_reason, m.event_signals) >>)

\* A _to_attention that would park the machine in the attention state.
ToAttentionEnteringState(m, ep, signal) ==
    LET started == StartEvent(m, signal)
    IN  Outcome([started EXCEPT !.state = "attention", !.event_start = FALSE,
                                !.event_signals = <<>>],
                TRUE, "quiet", "attention", TRUE,
                << EventRecord(ep, "quiet", "attention_logged",
                               started.event_signals) >>)

\* _to_attention: logs an event and clears the event fields; _state is not
\* assigned, the result always reports quiet -> quiet.
ToAttention(m, ep, signal) ==
    LET started == StartEvent(m, signal)
    IN  Outcome([started EXCEPT !.event_start = FALSE, !.event_signals = <<>>],
                TRUE, "quiet", "quiet", TRUE,
                << EventRecord(ep, "quiet", "attention_logged",
                               started.event_signals) >>)

\* _to_pre
ToPre(m, signal) ==
    Outcome(StartEvent([m EXCEPT !.state = "pre"], signal),
            TRUE, m.state, "pre", TRUE, <<>>)

\* _to_pending
ToPending(m, signal) ==
    Outcome(StartEvent([m EXCEPT !.state = "pending",
                                 !.pending_started = TRUE], signal),
            TRUE, m.state, "pending", TRUE, <<>>)

\* A _to_triggered that would close the running event and open a new one.
ToTriggeredSealing(m, signal) ==
    LET closed == [m EXCEPT !.event_start = FALSE, !.event_signals = <<>>,
                            !.pending_started = FALSE]
    IN  Outcome(StartEvent([closed EXCEPT !.state = "triggered"], signal),
                TRUE, m.state, "triggered", TRUE, <<>>)

\* _to_triggered
ToTriggered(m, signal) ==
    Outcome(StartEvent([m EXCEPT !.state = "triggered"], signal),
            TRUE, m.state, "triggered", TRUE, <<>>)

IsExteriorPerson(signal) ==
    signal.zone_type = "exterior" /\ signal.signal_type = "person_detected"

IsInteriorMotion(signal) ==
    signal.zone_type = "interior" /\ signal.signal_type = "motion_active"

\* _process_disarmed
ProcessDisarmed(m, ep, signal) == StayQuiet(m)

\* _process_home_alert: no branch looks at the current state.
ProcessHomeAlert(m, ep, signal) ==
    IF signal.signal_type = "glass_break" THEN ToTriggered(m, signal)
    ELSE IF IsExteriorPerson(signal) THEN ToPre(m, signal)
    ELSE IF signal.signal_type = "door_open" THEN ToPre(m, signal)
    ELSE IF IsInteriorMotion(signal) THEN ToPre(m, signal)
    ELSE StayQuiet(m)

\* _process_home_quiet: no branch looks at the current state.
ProcessHomeQuiet(m, ep, signal) ==
    IF signal.signal_type = "glass_break" THEN ToTriggered(m, signal)
    ELSE IF IsExteriorPerson(signal) THEN ToAttention(m, ep, signal)
    ELSE IF signal.signal_type = "door_open"
         THEN IF ~signal.from_inside THEN ToAttention(m, ep, signal)
              ELSE StayQuiet(m)
    ELSE StayQuiet(m)

\* _process_away
ProcessAway(m, ep, signal) ==
    IF m.state = "pre" THEN
        IF signal.signal_type = "door_open" THEN ToPending(m, signal)
        ELSE IF signal.signal_type \in {"motion_active", "glass_break"}
             THEN ToTriggered(m, signal)
        ELSE RecordSignal(m, signal)
    ELSE IF m.state = "pending" THEN
        IF signal.signal_type \in {"motion_active", "glass_break"}
        THEN ToTriggered(m, signal)
        ELSE RecordSignal(m, signal)
    ELSE IF m.state = "triggered" THEN RecordSignal(m, signal)
    ELSE IF signal.signal_type = "glass_break" THEN ToTriggered(m, signal)
    ELSE IF IsInteriorMotion(signal) THEN ToTriggered(m, signal)
    ELSE IF signal.signal_type = "door_open" THEN ToPending(m, signal)
    ELSE IF IsExteriorPerson(signal) THEN ToPre(m, signal)
    ELSE StayQuiet(m)

\* The PRE / PENDING / TRIGGERED prefix shared, line for line, by
\* _process_night_occupied_alert and _process_night_occupied_quiet.
NightOccupiedActive(m, signal) ==
    IF m.state = "pre" THEN
        IF signal.signal_type = "door_open" /\ ~signal.from_inside
        THEN ToPending(m, signal)
        ELSE IF signal.signal_type = "glass_break" THEN ToTriggered(m, signal)
        ELSE RecordSignal(m, signal)
    ELSE IF m.state = "pending" THEN
        IF signal.signal_type \in {"motion_active", "glass_break"}
        THEN ToTriggered(m, signal)
        ELSE RecordSignal(m, signal)
    ELSE RecordSignal(m, signal)

\* A night-occupied / alert handler that would ignore interior motion.
ProcessNightOccupiedAlertIgnoringMotion(m, ep, signal) ==
    IF m.state \in {"pre", "pending", "triggered"}
    THEN NightOccupiedActive(m, signal)
    ELSE IF signal.signal_type = "glass_break" THEN ToTriggered(m, signal)
    ELSE IF IsExteriorPerson(signal) THEN ToPre(m, signal)
    ELSE IF signal.signal_type = "door_open"
         THEN IF signal.from_inside THEN ToPre(m, signal)
              ELSE ToPending(m, signal)
    ELSE StayQuiet(m)

\* _process_night_occupied_alert
ProcessNightOccupiedAlert(m, ep, signal) ==
    IF m.state \in {"pre", "pending", "triggered"}
    THEN NightOccupiedActive(m, signal)
    ELSE IF signal.signal_type = "glass_break" THEN ToTriggered(m, signal)
    ELSE IF IsExteriorPerson(signal) THEN ToPre(m, signal)
    ELSE IF signal.signal_type = "door_open"
         THEN IF signal.from_inside THEN ToPre(m, signal)
              ELSE ToPending(m, signal)
    ELSE IF IsInteriorMotion(signal) THEN ToAttention(m, ep, signal)
    ELSE StayQuiet(m)

\* _process_night_occupied_quiet
ProcessNightOccupiedQuiet(m, ep, signal) ==
    IF m.state \in {"pre", "pending", "triggered"}
    THEN NightOccupiedActive(m, signal)
    ELSE IF signal.signal_type = "glass_break" THEN ToTriggered(m, signal)
    ELSE IF IsExteriorPerson(signal) THEN ToPre(m, signal)
    ELSE IF signal.signal_type = "door_open"
         THEN IF signal.from_inside THEN ToPre(m, signal)
              ELSE ToPending(m, signal)
    ELSE StayQuiet(m)

\* _process_night_perimeter: a PRE / PENDING machine that gets a signal other
\* than door / motion / glass falls through to the QUIET rules.
ProcessNightPerimeter(m, ep, signal) ==
    IF /\ m.state \in {"pre", "pending"}
       /\ signal.signal_type \in {"door_open", "motion_active", "glass_break"}
    THEN ToTriggered(m, signal)
    ELSE IF m.state = "triggered" THEN RecordSignal(m, signal)
    ELSE IF signal.signal_type = "glass_break" THEN ToTriggered(m, signal)
    ELSE IF signal.signal_type = "door_open" THEN ToTriggered(m, signal)
    ELSE IF IsInteriorMotion(signal) THEN ToTriggered(m, signal)
    ELSE IF IsExteriorPerson(signal) THEN ToPre(m, signal)
    ELSE StayQuiet(m)

\* EntryPointStateMachine.process: dispatch on the machine's own modes.
Process(m, ep, signal) ==
    IF m.house_mode = "disarmed" THEN ProcessDisarmed(m, ep, signal)
    ELSE IF m.house_mode = "home" THEN
        IF m.user_mode = "alert" THEN ProcessHomeAlert(m, ep, signal)
        ELSE ProcessHomeQuiet(m, ep, signal)
    ELSE IF m.house_mode = "away" THEN ProcessAway(m, ep, signal)
    ELSE IF m.house_mode = "night_occupied" THEN
        IF m.user_mode = "alert" THEN ProcessNightOccupiedAlert(m, ep, signal)
        ELSE ProcessNightOccupiedQuiet(m, ep, signal)
    ELSE IF m.house_mode = "night_perimeter" THEN ProcessNightPerimeter(m, ep, signal)
    ELSE StayQuiet(m)

\* A cancel that would also accept a triggered machine.
CancelAnyState(m, ep) ==
    IF m.state \in {"pre", "pending", "triggered"}
    THEN RecordAndReturnQuiet(m, ep, "canceled")
    ELSE Outcome(m, FALSE, m.state, m.state, FALSE, <<>>)

\* EntryPointStateMachine.cancel
Cancel(m, ep) ==
    IF m.state \in {"pre", "pending"} THEN RecordAndReturnQuiet(m, ep, "canceled")
    ELSE Outcome(m, FALSE, m.state, m.state, FALSE, <<>>)

\* EntryPointStateMachine.resolve
Resolve(m, ep) ==
    IF m.state = "triggered" THEN RecordAndReturnQuiet(m, ep, "resolved")
    ELSE Outcome(m, FALSE, m.state, m.state, FALSE, <<>>)

\* EntryPointStateMachine.reset: no record is written, no callback is made.
Reset(m) ==
    [m EXCEPT !.state = "quiet", !.pending_started = FALSE,
              !.event_start = FALSE, !.event_signals = <<>>]

\* EntryPointStateMachine.set_modes
SetModes(m, hm, um) ==
    Reset([m EXCEPT !.house_mode = hm, !.user_mode = um])

-----------------------------------------------------------------------------
(* SecurityCoordinator (state_machine_v5.py) *)

\* "entry_delay_sec: int = None" of register_entry_point / _create_entry_point
NoneDelay == -1

\* dict order of SecurityCoordinator._entry_points: "_global" is inserted by
\* the constructor, the other ids after it.
EPOrder == <<GLOBAL, "ep_front">>

\* A _create_entry_point that would start the machine in the modes of a new
\* coordinator instead of the current ones.
CreateMachineInInitialModes(smap, ep, delay) ==
    LET d == IF delay # NoneDelay THEN delay ELSE DefaultDelay
    IN  [x \in DOMAIN smap \cup {ep} |->
            IF x = ep THEN NewMachine("disarmed", "quiet", d) ELSE smap[x]]

\* SecurityCoordinator._create_entry_point
CreateMachine(smap, ep, delay) ==
    LET d == IF delay # NoneDelay THEN delay ELSE DefaultDelay
    IN  [x \in DOMAIN smap \cup {ep} |->
            IF x = ep THEN NewMachine(house_mode, user_mode, d) ELSE smap[x]]

\* SecurityCoordinator.register_entry_point
RegisterEntryPoint(smap, ep, delay) ==
    IF ep \in DOMAIN smap THEN
        LET m1 == IF delay # NoneDelay
                  THEN [smap[ep] EXCEPT !.entry_delay_sec = delay]
                  ELSE smap[ep]
            m2 == IF m1.house_mode # house_mode \/ m1.user_mode # user_mode
                  THEN SetModes(m1, house_mode, user_mode)
                  ELSE m1
        IN  [smap EXCEPT ![ep] = m2]
    ELSE CreateMachine(smap, ep, delay)

\* SecurityCoordinator.set_modes, applied to the machines
CoordinatorSetModes(smap, hm, um) ==
    [ep \in DOMAIN smap |-> SetModes(smap[ep], hm, um)]

\* SecurityCoordinator.cancel
CoordinatorCancel(ep) ==
    IF ep \in DOMAIN sm THEN Cancel(sm[ep], ep)
    ELSE Outcome(NewMachine(house_mode, user_mode, DefaultDelay),
                 FALSE, "quiet", "quiet", FALSE, <<>>)

\* SecurityCoordinator.resolve
CoordinatorResolve(ep) ==
    IF ep \in DOMAIN sm THEN Resolve(sm[ep], ep)
    ELSE Outcome(NewMachine(house_mode, user_mode, DefaultDelay),
                 FALSE, "quiet", "quiet", FALSE, <<>>)

\* The records that a loop over _entry_points.values() hands to
\* _on_entry_state_change, in dict order.
RECURSIVE RecordsInOrder(_, _)
RecordsInOrder(order, outcomes) ==
    IF order = <<>> THEN <<>>
    ELSE (IF Head(order) \in DOMAIN outcomes /\ outcomes[Head(order)].notified
          THEN outcomes[Head(order)].recs ELSE <<>>)
         \o RecordsInOrder(Tail(order), outcomes)

\* SecurityCoordinator.cancel_all: one outcome per machine
CancelAllOutcomes == [ep \in DOMAIN sm |-> Cancel(sm[ep], ep)]

\* SecurityCoordinator.resolve_all: one outcome per machine
ResolveAllOutcomes == [ep \in DOMAIN sm |-> Resolve(sm[ep], ep)]

\* SecurityCoordinator.get_status()["global_state"]
Priority(s) ==
    CASE s = "quiet" -> 0 [] s = "attention" -> 1 [] s = "pre" -> 2
      [] s = "pending" -> 3 [] s = "triggered" -> 4

\* The loop of get_status over _entry_points.items(): a machine replaces
\* highest_state when its priority is strictly greater.
RECURSIVE HighestState(_, _, _)
HighestState(smap, order, highest_state) ==
    IF order = <<>> THEN highest_state
    ELSE LET ep_id == Head(order)
         IN  HighestState(smap, Tail(order),
                 IF /\ ep_id \in DOMAIN smap
                    /\ Priority(smap[ep_id].state) > Priority(highest_state)
                 THEN smap[ep_id].state
                 ELSE highest_state)

\* A get_status that would leave _global out of the comparison as it leaves
\* it out of the entry_points listing.
GlobalStateOfListedEntryPoints(smap) ==
    HighestState(smap, SelectSeq(EPOrder, LAMBDA e : e # GLOBAL), "quiet")

GlobalState(smap) == HighestState(smap, EPOrder, "quiet")

-----------------------------------------------------------------------------
(* EntryDelayTimer (api/manager.py) *)

\* Positions of a timer thread after _stop_event.wait timed out and
\* self._callback was read and called:
\*   cb    - in _on_entry_delay_expired_v5, before the state checks
\*   write - in trigger_entry_delay_expired, the PENDING check has passed
\* The flag tells whether cancel() has been called on the timer since the
\* thread was started.
ThreadPcs == {"cb", "write"}

RunKinds == ThreadPcs \X BOOLEAN

NoThreads == [k \in RunKinds |-> 0]

ThreadCount(bag) ==
    bag[<<"cb", FALSE>>] + bag[<<"cb", TRUE>>]
  + bag[<<"write", FALSE>>] + bag[<<"write", TRUE>>]

RECURSIVE SumOver(_, _)
SumOver(f, S) ==
    IF S = {} THEN 0
    ELSE LET x == CHOOSE y \in S : TRUE IN f[x] + SumOver(f, S \ {x})

\* Timer threads that are past wait(), over all timers
RunningThreads == SumOver([ep \in EntryPointIds |-> ThreadCount(running[ep])],
                          EntryPointIds)

\* Signals held by the coordinator: in the machines' open events and in
\* the sealed records
SignalsHeld(smap, events) ==
    SumOver([ep \in DOMAIN smap |-> Len(smap[ep].event_signals)], DOMAIN smap)
  + SumOver([i \in DOMAIN events |-> Len(events[i].signals)], DOMAIN events)

\* EntryDelayTimer.__init__
NewTimer == [callback |-> FALSE, stop_event |-> FALSE, delay_sec |-> 0]

\* The timers and their threads, as one value
Timers == [entry_timers |-> entry_timers, waiting |-> waiting, running |-> running]

\* What cancel() does to the threads of the timer: the thread blocked in
\* wait() returns; a thread that is already past wait() is joined for at
\* most 0.5 s and then abandoned.
MarkCancelled(bag) ==
    [k \in RunKinds |-> IF k[2] THEN bag[k] + bag[<<k[1], FALSE>>] ELSE 0]

\* EntryDelayTimer.cancel
TimerCancel(ts, ep) ==
    IF ep \notin DOMAIN ts.entry_timers THEN ts
    ELSE [entry_timers |-> [ts.entry_timers EXCEPT ![ep].stop_event = TRUE,
                                                    ![ep].callback = FALSE],
          waiting |-> ts.waiting \ {ep},
          running |-> [ts.running EXCEPT ![ep] = MarkCancelled(@)]]

\* "for timer in state.entry_timers.values(): timer.cancel()"
CancelAllTimers(ts) ==
    [entry_timers |-> [ep \in DOMAIN ts.entry_timers |->
                          [ts.entry_timers[ep] EXCEPT !.stop_event = TRUE,
                                                      !.callback = FALSE]],
     waiting |-> ts.waiting \ DOMAIN ts.entry_timers,
     running |-> [ep \in EntryPointIds |->
                     IF ep \in DOMAIN ts.entry_timers
                     THEN MarkCancelled(ts.running[ep]) ELSE ts.running[ep]]]

\* AppState.get_entry_timer followed by EntryDelayTimer.start
TimerStart(ts, ep, delay) ==
    LET have == [x \in DOMAIN ts.entry_timers \cup {ep} |->
                    IF x \in DOMAIN ts.entry_timers THEN ts.entry_timers[x]
                    ELSE NewTimer]
        c == TimerCancel([ts EXCEPT !.entry_timers = have], ep)
    IN  [entry_timers |-> [c.entry_timers EXCEPT ![ep] =
                              [callback |-> TRUE, stop_event |-> FALSE,
                               delay_sec |-> delay]],
         waiting |-> c.waiting \cup {ep},
         running |-> c.running]

\* An _on_state_change that would start no timer.
OnStateChangeWithoutTimer(ts, ep, o) == ts

\* AppState._on_state_change: a timer is started when the reported target
\* state is pending; no branch cancels one.
OnStateChange(ts, ep, o) ==
    IF o.notified /\ o.to = "pending"
    THEN TimerStart(ts, ep, IF ep \in DOMAIN entry_points
                            THEN entry_points[ep] ELSE DefaultDelay)
    ELSE ts

-----------------------------------------------------------------------------
(* AlarmStateMachine (services/alarm_sm.py) *)

\* The values _state takes: CANCELED and RESOLVED are never assigned.
AlarmSMStates == {"quiet", "pre", "pending", "triggered"}

WorkflowClass == {"security_heavy", "life_safety", "suspicion_light", "logistics"}

\* AlarmSMConfig
entry_delay_away_sec == 30
entry_delay_night_occupied_sec == 15
entry_delay_night_perimeter_sec == 0
entry_delay_home_sec == 30
follower_accelerate_home == FALSE

\* Levels handed to set_avs_level
AvsLevels == 0..2

\* AlarmStateMachine.__init__; a timestamp is modelled by whether it is set,
\* _transitions by its last element as <<trigger, from_state, to_state>>.
NewAlarmSM ==
    [state |-> "quiet", workflow_class |-> "none", disposition |-> "pending",
     pending_entered_at |-> FALSE, triggered_at |-> FALSE,
     canceled_at |-> FALSE, resolved_at |-> FALSE,
     entry_delay_sec |-> 0, abort_window_end |-> FALSE,
     siren_timeout_end |-> FALSE, avs_peak |-> 0, avs_final |-> 0,
     last_transition |-> << >>]

\* TransitionResult of alarm_sm.py, with the machine after the call
AlarmResult(m, success, from, trigger) ==
    [m |-> m, success |-> success, from |-> from, to |-> m.state,
     trigger |-> trigger]

\* AlarmStateMachine.set_avs_level
SetAvsLevel(m, level) ==
    IF level > m.avs_peak THEN [m EXCEPT !.avs_peak = level] ELSE m

\* AlarmStateMachine.get_entry_delay
GetEntryDelay(hm, night_sub, entry_point_delay) ==
    IF entry_point_delay # NoneDelay THEN entry_point_delay
    ELSE IF hm = "away" THEN entry_delay_away_sec
    ELSE IF hm = "night" THEN
        IF night_sub = "night_perimeter" THEN entry_delay_night_perimeter_sec
        ELSE entry_delay_night_occupied_sec
    ELSE IF hm = "home" THEN entry_delay_home_sec
    ELSE 0

\* AlarmStateMachine._enter_pre
EnterPre(m, trigger) ==
    IF m.state # "quiet" THEN AlarmResult(m, FALSE, m.state, trigger)
    ELSE AlarmResult([m EXCEPT !.state = "pre", !.disposition = "in_progress",
                               !.last_transition = <<trigger, m.state, "pre">>],
                     TRUE, m.state, trigger)

\* An _enter_pending that would raise the alarm when the zone is violated
\* again during the entry delay.
EnterPendingOrEscalate(m, trigger, delay) ==
    IF m.state = "pending"
    THEN AlarmResult([m EXCEPT !.state = "triggered",
                               !.triggered_at = TRUE,
                               !.abort_window_end = TRUE,
                               !.last_transition =
                                   <<trigger, "pending", "triggered">>],
                     TRUE, "pending", trigger)
    ELSE IF m.state \notin {"quiet", "pre"}
    THEN AlarmResult(m, FALSE, m.state, trigger)
    ELSE AlarmResult([m EXCEPT !.state = "pending",
                               !.disposition = "in_progress",
                               !.pending_entered_at = TRUE,
                               !.entry_delay_sec = delay,
                               !.last_transition =
                                   <<trigger, m.state, "pending">>],
                     TRUE, m.state, trigger)

\* AlarmStateMachine._enter_pending
EnterPending(m, trigger, delay) ==
    IF m.state \notin {"quiet", "pre"}
    THEN AlarmResult(m, FALSE, m.state, trigger)
    ELSE AlarmResult([m EXCEPT !.state = "pending",
                               !.disposition = "in_progress",
                               !.pending_entered_at = TRUE,
                               !.entry_delay_sec = delay,
                               !.last_transition =
                                   <<trigger, m.state, "pending">>],
                     TRUE, m.state, trigger)

\* AlarmStateMachine._enter_triggered
EnterTriggered(m, trigger) ==
    IF m.state \notin {"quiet", "pre", "pending"}
    THEN AlarmResult(m, FALSE, m.state, trigger)
    ELSE AlarmResult([m EXCEPT !.state = "triggered",
                               !.disposition = "in_progress",
                               !.triggered_at = TRUE,
                               !.abort_window_end = TRUE,
                               !.last_transition =
                                   <<trigger, m.state, "triggered">>],
                     TRUE, m.state, trigger)

\* AlarmStateMachine._enter_canceled: the machine returns to QUIET at once.
EnterCanceled(m, trigger) ==
    AlarmResult([m EXCEPT !.canceled_at = TRUE, !.state = "quiet",
                          !.pending_entered_at = FALSE, !.triggered_at = FALSE,
                          !.last_transition = <<trigger, m.state, "quiet">>],
                TRUE, m.state, trigger)

\* AlarmStateMachine._enter_resolved: the machine returns to QUIET at once.
EnterResolved(m, trigger) ==
    AlarmResult([m EXCEPT !.resolved_at = TRUE, !.state = "quiet",
                          !.pending_entered_at = FALSE, !.triggered_at = FALSE,
                          !.last_transition = <<trigger, m.state, "quiet">>],
                TRUE, m.state, trigger)

\* AlarmStateMachine.trigger_zone_trip; _workflow_class is assigned before
\* any test.
TriggerZoneTrip(m0, zone_type, signal_type, workflow_class, hm, night_sub, entry_delay_override) ==
    LET m == [m0 EXCEPT !.workflow_class = workflow_class]
    IN  IF workflow_class = "life_safety" THEN EnterTriggered(m, "life_safety")
        ELSE IF workflow_class = "suspicion_light" THEN EnterPre(m, "zone_trip")
        ELSE IF workflow_class = "logistics"
             THEN AlarmResult(m, FALSE, m.state, "zone_trip")
        ELSE IF zone_type = "perimeter" /\ signal_type = "glass_break"
             THEN EnterTriggered(m, "break_in_detected")
        ELSE IF zone_type \in {"entry_exit", "perimeter"} THEN
            LET entry_delay == GetEntryDelay(hm, night_sub, entry_delay_override)
            IN  IF entry_delay = 0 THEN EnterTriggered(m, "entry_instant_mode")
                ELSE EnterPending(m, IF zone_type = "entry_exit"
                                     THEN "entry_zone_violated"
                                     ELSE "perimeter_violated", entry_delay)
        ELSE IF zone_type = "interior" THEN
            LET entry_delay == IF entry_delay_override # NoneDelay
                               THEN entry_delay_override ELSE 0
            IN  IF entry_delay = 0 THEN EnterTriggered(m, "entry_instant_mode")
                ELSE EnterPending(m, "entry_zone_violated", entry_delay)
        ELSE AlarmResult(m, FALSE, m.state, "zone_trip")

\* AlarmStateMachine.trigger_follower_acceleration; late tells whether more
\* than follower_path_sec have passed since pending was entered.
TriggerFollowerAcceleration(m, hm, late) ==
    IF m.state # "pending"
    THEN AlarmResult(m, FALSE, m.state, "follower_accelerated")
    ELSE IF m.pending_entered_at /\ late
    THEN AlarmResult(m, FALSE, m.state, "follower_accelerated")
    ELSE IF hm = "home" /\ ~follower_accelerate_home
    THEN AlarmResult(m, FALSE, m.state, "follower_accelerated")
    ELSE EnterTriggered(m, "follower_accelerated")

\* AlarmStateMachine.trigger_entry_delay_expired
AlarmEntryDelayExpired(m) ==
    IF m.state # "pending"
    THEN AlarmResult(m, FALSE, m.state, "entry_delay_expired")
    ELSE EnterTriggered(m, "entry_delay_expired")

\* A user cancel that would be refused once the alarm has triggered.
TriggerUserCancelBeforeTrigger(m) ==
    IF m.state \in {"pre", "pending"}
    THEN EnterCanceled([m EXCEPT !.avs_final = 0,
                                 !.disposition = "canceled_before_trigger"],
                       "user_cancel")
    ELSE AlarmResult(m, FALSE, m.state, "user_cancel")

\* AlarmStateMachine.trigger_user_cancel
TriggerUserCancel(m) ==
    IF m.state \in {"pre", "pending"}
    THEN EnterCanceled([m EXCEPT !.avs_final = 0,
                                 !.disposition = "canceled_before_trigger"],
                       "user_cancel")
    ELSE IF m.state = "triggered"
    THEN EnterCanceled([m EXCEPT !.avs_final = m.avs_peak,
                                 !.disposition = "canceled_after_trigger"],
                       "user_cancel")
    ELSE AlarmResult(m, FALSE, m.state, "user_cancel")

\* AlarmStateMachine.trigger_disarm
TriggerDisarm(m) ==
    IF m.state \in {"pre", "pending"}
    THEN EnterCanceled([m EXCEPT !.avs_final = 0,
                                 !.disposition = "canceled_before_trigger"],
                       "disarm")
    ELSE IF m.state = "triggered"
    THEN EnterCanceled([m EXCEPT !.avs_final = m.avs_peak,
                                 !.disposition = "canceled_after_trigger"],
                       "disarm")
    ELSE AlarmResult(m, FALSE, m.state, "disarm")

\* AlarmStateMachine.trigger_siren_timeout: the state is not changed.
TriggerSirenTimeout(m) ==
    IF m.state # "triggered"
    THEN AlarmResult(m, FALSE, m.state, "siren_timeout")
    ELSE AlarmResult([m EXCEPT !.siren_timeout_end = TRUE],
                     TRUE, m.state, "siren_timeout")

\* AlarmStateMachine.trigger_resolve
TriggerResolve(m, by_user, verified_false) ==
    IF m.state # "triggered"
    THEN AlarmResult(m, FALSE, m.state, "resolve_by_user")
    ELSE IF verified_false
    THEN EnterResolved([m EXCEPT !.avs_final = 0,
                                 !.disposition = "verified_false"],
                       "verified_false")
    ELSE IF by_user
    THEN EnterResolved([m EXCEPT !.avs_final = m.avs_peak,
                                 !.disposition = "resolved_by_user"],
                       "resolve_by_user")
    ELSE EnterResolved([m EXCEPT !.avs_final = m.avs_peak,
                                 !.disposition = "resolved_timeout"],
                       "resolve_timeout")

-----------------------------------------------------------------------------
(* DebounceFilter (services/signal_pipeline.py) *)

\* DebounceConfig, times in seconds
door_bounce_window_sec == 5
door_bounce_threshold == 3
motion_cooldown_sec == 10
camera_cooldown_sec == 5
life_safety_merge_window_sec == 5
\* the floor of max_age in _cleanup_old_history
history_keep_sec == 60

NoTime == -1

\* The filter state of one sensor: _signal_history[sensor_id] as a sequence
\* of <<time, signal type>>, _last_valid.get(sensor_id), the time of the last
\* call and what that call returned.
NewDebounceFilter ==
    [history |-> <<>>, last_valid |-> NoTime, now |-> 0,
     signal_type |-> "none", should_filter |-> FALSE]

\* _is_duplicate_life_safety
IsDuplicateLifeSafety(history, now) ==
    LET cutoff == now - life_safety_merge_window_sec
    IN  Cardinality({i \in DOMAIN history :
                        /\ history[i][1] >= cutoff
                        /\ history[i][2] \in LifeSafetySignals}) > 1

\* A life-safety branch that would drop the duplicates it recognises.
SilenceDuplicateLifeSafety(history, now) ==
    IF IsDuplicateLifeSafety(history, now) THEN TRUE ELSE FALSE

\* The life-safety branch of filter: a duplicate is allowed like a first
\* occurrence.
FilterLifeSafety(history, now) ==
    IF IsDuplicateLifeSafety(history, now) THEN FALSE ELSE FALSE

\* A filter that would count the transitions before the current one only.
FilterCountingEarlierTransitions(d, signal_type, now) ==
    LET recorded == Append(d.history, <<now, signal_type>>)
        max_age == history_keep_sec
        history == SelectSeq(recorded, LAMBDA h : h[1] >= now - max_age)
        transitions == {i \in DOMAIN history \ {Len(history)} :
                           /\ history[i][1] >= now - door_bounce_window_sec
                           /\ history[i][2] \in {"door_open", "door_close"}}
        cooldown(sec) == d.last_valid # NoTime /\ now - d.last_valid < sec
        seen == [d EXCEPT !.history = history, !.now = now,
                          !.signal_type = signal_type]
        allow == [seen EXCEPT !.should_filter = FALSE]
        reject == [seen EXCEPT !.should_filter = TRUE]
        valid == [allow EXCEPT !.last_valid = now]
    IN  IF signal_type \in LifeSafetySignals
        THEN [seen EXCEPT !.should_filter = FilterLifeSafety(history, now)]
        ELSE IF signal_type = "glass_break" THEN allow
        ELSE IF signal_type \in {"door_open", "door_close"}
             THEN IF Cardinality(transitions) >= door_bounce_threshold
                  THEN reject ELSE allow
        ELSE IF signal_type = "motion_active"
             THEN IF cooldown(motion_cooldown_sec) THEN reject ELSE valid
        ELSE IF signal_type \in {"person_detected", "vehicle_detected",
                                 "loiter", "approach_entry"}
             THEN IF cooldown(camera_cooldown_sec) THEN reject ELSE valid
        ELSE allow

\* DebounceFilter.filter for one sensor, with _cleanup_old_history,
\* _filter_door_contact, _filter_motion and _filter_camera.
Filter(d, signal_type, now) ==
    LET recorded == Append(d.history, <<now, signal_type>>)
        max_age == history_keep_sec
        history == SelectSeq(recorded, LAMBDA h : h[1] >= now - max_age)
        transitions == {i \in DOMAIN history :
                           /\ history[i][1] >= now - door_bounce_window_sec
                           /\ history[i][2] \in {"door_open", "door_close"}}
        cooldown(sec) == d.last_valid # NoTime /\ now - d.last_valid < sec
        seen == [d EXCEPT !.history = history, !.now = now,
                          !.signal_type = signal_type]
        allow == [seen EXCEPT !.should_filter = FALSE]
        reject == [seen EXCEPT !.should_filter = TRUE]
        valid == [allow EXCEPT !.last_valid = now]
    IN  IF signal_type \in LifeSafetySignals
        THEN [seen EXCEPT !.should_filter = FilterLifeSafety(history, now)]
        ELSE IF signal_type = "glass_break" THEN allow
        ELSE IF signal_type \in {"door_open", "door_close"}
             THEN IF Cardinality(transitions) >= door_bounce_threshold
                  THEN reject ELSE allow
        ELSE IF signal_type = "motion_active"
             THEN IF cooldown(motion_cooldown_sec) THEN reject ELSE valid
        ELSE IF signal_type \in {"person_detected", "vehicle_detected",
                                 "loiter", "approach_entry"}
             THEN IF cooldown(camera_cooldown_sec) THEN reject ELSE valid
        ELSE allow

-----------------------------------------------------------------------------
(* DirectionInferencer (api/manager.py) *)

\* DirectionInferencer.lookback_seconds
lookback_seconds == 10

\* DirectionInferencer.__init__, with the clock of the handlers and the
\* from_inside and direction_reason that trigger_sensor had for the last
\* door_open
NewDirectionInferencer == [recent_signals |-> <<>>, now |-> 0, direction |-> <<>>]

\* DirectionInferencer.record_signal: the list after the call
InferencerRecordSignal(recent_signals, timestamp, zone_type, signal_type) ==
    LET appended == Append(recent_signals,
                           [timestamp |-> timestamp, zone_type |-> zone_type,
                            signal_type |-> signal_type])
    IN  IF Len(appended) > max_history
        THEN SubSeq(appended, Len(appended) - max_history + 1, Len(appended))
        ELSE appended

\* An inference that would let interior motion win when both sides moved.
InferDirectionPreferringInside(recent_signals, door_timestamp) ==
    IF \E i \in DOMAIN recent_signals :
           /\ recent_signals[i].timestamp >= door_timestamp - lookback_seconds
           /\ recent_signals[i].zone_type = "interior"
           /\ recent_signals[i].signal_type = "motion_active"
    THEN [from_inside |-> TRUE, reason |-> "interior_motion"]
    ELSE [from_inside |-> FALSE, reason |-> "isolated"]

\* DirectionInferencer.infer_direction: from_inside and which of the four
\* reasons is returned.  The loop walks the list from its newest entry and
\* stops at the first one before the cutoff.
InferDirection(recent_signals, door_timestamp) ==
    LET cutoff == door_timestamp - lookback_seconds
        RECURSIVE scan(_, _)
        scan(i, found) ==
            IF i = 0 THEN found
            ELSE IF recent_signals[i].timestamp < cutoff THEN found
            ELSE scan(i - 1,
                      [recent_exterior_person |->
                           \/ found.recent_exterior_person
                           \/ /\ recent_signals[i].zone_type = "exterior"
                              /\ recent_signals[i].signal_type
                                     = "person_detected",
                       recent_interior_motion |->
                           \/ found.recent_interior_motion
                           \/ /\ recent_signals[i].zone_type = "interior"
                              /\ recent_signals[i].signal_type
                                     = "motion_active"])
        seen == scan(Len(recent_signals),
                     [recent_exterior_person |-> FALSE,
                      recent_interior_motion |-> FALSE])
    IN  IF seen.recent_interior_motion /\ ~seen.recent_exterior_person
        THEN [from_inside |-> TRUE, reason |-> "interior_motion"]
        ELSE IF seen.recent_exterior_person /\ ~seen.recent_interior_motion
        THEN [from_inside |-> FALSE, reason |-> "exterior_person"]
        ELSE IF seen.recent_exterior_person /\ seen.recent_interior_motion
        THEN [from_inside |-> FALSE, reason |-> "both"]
        ELSE [from_inside |-> FALSE, reason |-> "isolated"]

-----------------------------------------------------------------------------
(* WorkflowRouter, AlertLevelCalculator and SignalPipeline *)

\* AlarmSMConfig.follower_path_sec
follower_path_sec == 20

\* WorkflowRouter.route and its _route_* helpers, for a call without
\* access decision and without recent_signals, as SignalPipeline.process
\* makes it.  A rule that returns nothing falls through to the next one.
Route(signal_type, zone_type, hm, night_sub, recent_interior, recent_exterior) ==
    LET rr(wc, et) == [workflow_class |-> wc, event_type |-> et]
        break_in == signal_type \in {"glass_break", "forced_entry"}
        heavy_zone == zone_type \in {"entry_exit", "perimeter", "interior",
                                     "fire_24h", "co_24h"}
        heavy == rr("security_heavy",
                    IF signal_type = "glass_break" THEN "glass_break"
                    ELSE IF signal_type = "forced_entry" THEN "forced_entry"
                    ELSE IF zone_type = "perimeter" THEN "perimeter_breach"
                    ELSE "intrusion_attempted")
        activity == rr("suspicion_light", "activity_detected")
        is_armed == hm # "disarmed"
        security ==
            IF signal_type \notin {"door_open", "window_open", "forced_entry",
                                   "glass_break", "panic"}
            THEN <<>>
            ELSE IF ~(is_armed \/ zone_type \in {"fire_24h", "co_24h"})
            THEN <<>>
            ELSE IF hm = "home" THEN
                IF break_in THEN <<heavy>>
                ELSE IF zone_type \in {"entry_exit", "interior"}
                THEN <<activity>>
                ELSE <<>>
            ELSE IF hm = "night" THEN
                IF break_in THEN <<heavy>>
                ELSE IF night_sub = "night_perimeter" /\ heavy_zone
                THEN <<heavy>>
                ELSE IF zone_type = "interior" THEN <<activity>>
                ELSE IF zone_type = "entry_exit" THEN
                    IF recent_exterior /\ ~recent_interior THEN <<heavy>>
                    ELSE <<activity>>
                ELSE IF zone_type = "perimeter" THEN <<heavy>>
                ELSE <<>>
            ELSE IF heavy_zone THEN <<heavy>>
            ELSE <<>>
        suspicion ==
            IF signal_type \notin {"person_detected", "vehicle_detected",
                                   "loiter", "approach_entry", "motion_active"}
            THEN <<>>
            ELSE IF zone_type = "exterior" THEN
                IF hm = "home" THEN <<activity>>
                ELSE <<rr("suspicion_light", "pre_alert")>>
            ELSE IF zone_type = "interior" THEN
                IF hm = "home" THEN <<activity>>
                ELSE IF hm = "night" /\ night_sub # "night_perimeter"
                THEN <<activity>>
                ELSE IF is_armed
                THEN <<rr("security_heavy", "intrusion_confirmed")>>
                ELSE <<>>
            ELSE <<>>
    IN  IF signal_type \in LifeSafetySignals
        THEN rr("life_safety", IF signal_type = "co_detected"
                               THEN "co_alarm" ELSE "smoke_alarm")
        ELSE IF signal_type \in {"package_delivered", "package_removed",
                                 "courier_arrived"}
        THEN rr("logistics", IF signal_type = "package_removed"
                             THEN "package_removed" ELSE "package_delivered")
        ELSE IF security # <<>> THEN security[1]
        ELSE IF suspicion # <<>> THEN suspicion[1]
        ELSE rr("suspicion_light", "pre_alert")

\* ContextEvidenceChecker.T_CONTEXT_SEC
T_CONTEXT_SEC == 30

\* A checker that would shorten the delay in every night sub-mode.
CheckForContextEvidenceInEveryNight(trigger_signal, trigger_timestamp, entry_point_id, recent_signals, hm, night_sub, base_entry_delay_sec) ==
    LET matching ==
            SelectSeq(recent_signals, LAMBDA sig :
                /\ sig.timestamp >= trigger_timestamp - T_CONTEXT_SEC
                /\ sig.signal_type \in {"approach_entry", "loiter",
                                        "person_detected"}
                /\ entry_point_id # "none"
                       => sig.entry_point_id = entry_point_id)
        third == base_entry_delay_sec \div 3
    IN  IF \/ trigger_signal \notin {"door_open", "window_open",
                                     "glass_break", "forced_entry"}
           \/ recent_signals = <<>>
        THEN [has_context |-> FALSE, context_count |-> 0,
              shortened_delay |-> NoneDelay]
        ELSE [has_context |-> Len(matching) > 0,
              context_count |-> Len(matching),
              shortened_delay |->
                  IF Len(matching) > 0 /\ hm = "night"
                  THEN IF third < 10 THEN third ELSE 10
                  ELSE NoneDelay]

\* ContextEvidenceChecker.check_for_context_evidence: has_context,
\* context_count and shortened_delay, NoneDelay standing for None.  The
\* entry point and the night sub-mode of the call are "none" when absent.
CheckForContextEvidence(trigger_signal, trigger_timestamp, entry_point_id, recent_signals, hm, night_sub, base_entry_delay_sec) ==
    LET CONTEXT_EVIDENCE_SIGNALS ==
            {"approach_entry", "loiter", "person_detected"}
        CONTEXT_ENHANCEABLE_TRIGGERS ==
            {"door_open", "window_open", "glass_break", "forced_entry"}
        cutoff_time == trigger_timestamp - T_CONTEXT_SEC
        matching_signals ==
            SelectSeq(recent_signals, LAMBDA sig :
                /\ sig.timestamp >= cutoff_time
                /\ sig.signal_type \in CONTEXT_EVIDENCE_SIGNALS
                /\ entry_point_id # "none"
                       => sig.entry_point_id = entry_point_id)
        has_context == Len(matching_signals) > 0
        is_occupied == night_sub # "night_perimeter"
        third == base_entry_delay_sec \div 3
    IN  IF trigger_signal \notin CONTEXT_ENHANCEABLE_TRIGGERS
        THEN [has_context |-> FALSE, context_count |-> 0,
              shortened_delay |-> NoneDelay]
        ELSE IF recent_signals = <<>>
        THEN [has_context |-> FALSE, context_count |-> 0,
              shortened_delay |-> NoneDelay]
        ELSE [has_context |-> has_context,
              context_count |-> Len(matching_signals),
              shortened_delay |->
                  IF has_context /\ hm = "night" /\ is_occupied
                  THEN IF third < 10 THEN third ELSE 10
                  ELSE NoneDelay]

\* The caller of the checker before any signal or call: the ContextSignal
\* list it keeps, its clock, and the tuple returned by the last call.
NewContext == [recent_signals |-> <<>>, now |-> 0, checked |-> <<>>]

\* AlertLevelCalculator.calculate: the user alert level and the local
\* dispatch readiness for a context, under an AlertPolicy without per-zone
\* overrides.
Calculate(context, policy) ==
    LET state == context.alarm_state
        mode == context.house_mode
        security_heavy_level ==
            IF state = "triggered" THEN 3
            ELSE IF state = "pending" THEN
                IF mode = "away" THEN 3
                ELSE IF mode = "night" THEN
                    IF context.night_sub_mode = "night_perimeter" THEN 3 ELSE 2
                ELSE IF mode = "home" THEN 2
                ELSE 0
            ELSE IF state = "pre" THEN
                IF mode \in {"away", "night"} THEN 2 ELSE 1
            ELSE 0
        suspicion_level ==
            IF mode = "disarmed" THEN 0
            ELSE IF state = "pre" /\ mode \in {"away", "night"} THEN 2
            ELSE IF mode \in {"away", "night"} THEN 1
            ELSE IF mode = "home" THEN
                IF policy.notify_suspicion_in_home THEN 1
                ELSE IF /\ policy.quiet_hours
                        /\ \/ context.zone_type \in {"entry_exit", "perimeter"}
                           \/ context.entry_point_id # "none"
                THEN 1
                ELSE 0
            ELSE 0
        logistics_level ==
            IF policy.notify_logistics THEN 1
            ELSE IF policy.night_package_protection /\ mode = "night" THEN 1
            ELSE 0
        user_level ==
            IF context.workflow_class = "life_safety" THEN 3
            ELSE IF context.workflow_class = "logistics" THEN logistics_level
            ELSE IF context.workflow_class = "suspicion_light"
            THEN suspicion_level
            ELSE security_heavy_level
        security_dispatch ==
            IF state \in {"quiet", "pre"} THEN 0
            ELSE IF state \in {"pending", "triggered"} THEN
                IF \/ context.has_follower_confirmation
                   \/ context.has_multi_zone
                THEN 2 ELSE 1
            ELSE 0
        dispatch_level ==
            IF context.event_disposition \in
                   {"canceled_before_trigger", "canceled_after_trigger",
                    "verified_false"}
            THEN 0
            ELSE IF context.workflow_class \in {"suspicion_light", "logistics"}
            THEN 0
            ELSE IF context.workflow_class = "life_safety" THEN 3
            ELSE security_dispatch
    IN  [user_alert_level |-> user_level,
         dispatch_readiness_local |-> dispatch_level]

\* An event whose alert levels would stay as they were created.
KeepEventAlerts(event, ledger) == event

\* SignalPipeline._calculate_alerts and _update_event_alerts: the event with
\* its levels recomputed from its own fields and the evidence ledger, under
\* the default AlertPolicy.
UpdateEventAlerts(event, ledger) ==
    LET context ==
            [workflow_class |-> event.workflow_class,
             alarm_state |-> event.alarm_state,
             house_mode |-> event.house_mode,
             night_sub_mode |-> event.night_sub_mode,
             zone_type |-> "none", entry_point_id |-> "none",
             event_disposition |-> event.event_disposition,
             has_follower_confirmation |-> \E e \in ledger : e[2] = "interior",
             has_multi_zone |-> Cardinality({e[1] : e \in ledger}) >= 2]
        policy == [notify_suspicion_in_home |-> FALSE,
                   notify_logistics |-> FALSE,
                   night_package_protection |-> FALSE,
                   quiet_hours |-> FALSE]
        result == Calculate(context, policy)
    IN  [event EXCEPT
            !.user_alert_level = result.user_alert_level,
            !.dispatch_readiness_local = result.dispatch_readiness_local]

\* An update that would give the event the class of the latest signal.
AdoptWorkflow(event, route_result) ==
    [event EXCEPT !.workflow_class = route_result.workflow_class,
                  !.event_type = route_result.event_type]

\* SignalPipeline._maybe_upgrade_workflow
MaybeUpgradeWorkflow(event, route_result) ==
    LET priority == [logistics |-> 0, suspicion_light |-> 1,
                     security_heavy |-> 2, life_safety |-> 3]
        current_priority == priority[event.workflow_class]
        new_priority == priority[route_result.workflow_class]
    IN  IF new_priority > current_priority
        THEN [event EXCEPT !.workflow_class = route_result.workflow_class,
                           !.event_type = route_result.event_type]
        ELSE event

\* SignalPipeline.__init__ without the components that have a variable of
\* their own: mode_config, _active_event (a sequence of at most one event),
\* the <<zone id, zone type>> pairs of _evidence_ledger, _recent_activity as
\* <<time, zone type>>, the time at which the alarm entered pending, and
\* event_created of the last ProcessedSignal.
NewPipeline ==
    [house_mode |-> "disarmed", night_sub_mode |-> "none",
     active_event |-> <<>>, ledger |-> {}, recent_activity |-> <<>>,
     pending_entered_at |-> NoTime, event_created |-> FALSE]

\* SignalPipeline.process with _get_recent_activity, _update_alarm_sm and
\* _manage_event, at time now: the pipeline, its alarm state machine and
\* its debounce filter after the call.
PipelineProcess(p, a, d, signal, now) ==
    LET filtered == Filter(d, signal.signal_type, now)
        zone_type == signal.zone_type
        ledger == p.ledger \cup {<<signal.zone_id, zone_type>>}
        recent == SelectSeq(p.recent_activity, LAMBDA r : r[1] >= now - 60)
        last(zt) == LET ts == {recent[i][1] : i \in
                                  {j \in DOMAIN recent : recent[j][2] = zt}}
                    IN  IF ts = {} THEN NoTime
                        ELSE CHOOSE t \in ts : \A u \in ts : u <= t
        last_interior == last("interior")
        last_exterior == last("exterior")
        recent_exterior ==
            /\ last_exterior # NoTime
            /\ last_interior # NoTime => last_exterior > last_interior
        recent_interior == last_interior # NoTime /\ ~recent_exterior
        route_result == Route(signal.signal_type, zone_type, p.house_mode,
                              p.night_sub_mode, recent_interior,
                              recent_exterior)
        seen == [p EXCEPT !.ledger = ledger,
                          !.recent_activity = Append(recent, <<now, zone_type>>),
                          !.event_created = FALSE]
        should_create_event ==
            \/ route_result.workflow_class \in {"life_safety", "logistics"}
            \/ p.house_mode # "disarmed"
        topology_delay ==
            IF signal.entry_point_id = "none" THEN NoneDelay
            ELSE IF signal.entry_point_id # "ep_front" THEN 30
            ELSE IF p.house_mode = "away" THEN 30
            ELSE IF p.house_mode = "night" THEN
                IF p.night_sub_mode = "night_perimeter" THEN 0 ELSE 15
            ELSE IF p.house_mode = "home" THEN 30
            ELSE 0
        trip(delay) == TriggerZoneTrip(a, zone_type, signal.signal_type,
                                       route_result.workflow_class,
                                       p.house_mode, p.night_sub_mode, delay)
        transition ==
            IF /\ a.state = "pending"
               /\ zone_type = "interior"
               /\ signal.signal_type = "motion_active"
            THEN <<TriggerFollowerAcceleration(a, p.house_mode,
                       /\ p.pending_entered_at # NoTime
                       /\ now - p.pending_entered_at > follower_path_sec)>>
            ELSE IF /\ zone_type = "interior"
                    /\ route_result.workflow_class = "security_heavy"
                    /\ a.state \in {"quiet", "pre"}
            THEN <<trip(0)>>
            ELSE IF route_result.workflow_class \in
                        {"security_heavy", "life_safety", "suspicion_light"}
            THEN <<trip(topology_delay)>>
            ELSE <<>>
        sm_after == IF transition = <<>> THEN a ELSE transition[1].m
        created ==
            [event_type |-> route_result.event_type,
             workflow_class |-> route_result.workflow_class,
             alarm_state |-> sm_after.state,
             event_disposition |-> "pending",
             house_mode |-> p.house_mode,
             night_sub_mode |-> p.night_sub_mode,
             entry_delay_sec |-> sm_after.entry_delay_sec,
             triggered_at |-> FALSE,
             user_alert_level |-> 0, dispatch_readiness_local |-> 0]
        old == p.active_event[1]
        delayed == IF sm_after.state = "pending" /\ old.entry_delay_sec = 0
                   THEN sm_after.entry_delay_sec ELSE old.entry_delay_sec
        updated ==
            [MaybeUpgradeWorkflow(old, route_result) EXCEPT
                !.alarm_state = sm_after.state,
                !.entry_delay_sec = delayed,
                !.triggered_at =
                    IF /\ transition # <<>>
                       /\ transition[1].success
                       /\ sm_after.triggered_at
                    THEN TRUE ELSE @]
        event == IF p.active_event = <<>> THEN created ELSE updated
        entered == IF ~sm_after.pending_entered_at THEN NoTime
                   ELSE IF a.state # "pending" /\ sm_after.state = "pending"
                   THEN now
                   ELSE p.pending_entered_at
    IN  IF filtered.should_filter
        THEN [pipeline |-> [p EXCEPT !.event_created = FALSE],
              alarm_sm |-> a, debounce |-> filtered]
        ELSE IF ~should_create_event
        THEN [pipeline |-> seen, alarm_sm |-> a, debounce |-> filtered]
        ELSE [pipeline |->
                  [seen EXCEPT
                      !.active_event = <<UpdateEventAlerts(event, ledger)>>,
                      !.pending_entered_at = entered,
                      !.event_created = (p.active_event = <<>>)],
              alarm_sm |-> sm_after, debounce |-> filtered]

-----------------------------------------------------------------------------
(* OutputManager with an EdgeOutputChannel and a CloudOutputChannel *)
(* (services/output_channels.py) *)

ChannelNames == {"edge", "cloud"}

\* The events handed to the channels, by event_id
OutputEvents == {"evt_1", "evt_2"}

\* What the server answers to one POST: a status, or no answer in time
Responses == {"200", "201", "202", "500", "timeout"}

\* OutputChannel.__init__ with the fields of CloudOutputChannel.__init__; an
\* EdgeOutputChannel does not use max_retries and failed_queue.
NewChannel(max_retries) ==
    [enabled |-> TRUE, success_count |-> 0, failure_count |-> 0,
     max_retries |-> max_retries, failed_queue |-> << >>]

\* OutputManager.__init__, with the number of send_event calls that found
\* a channel enabled, and the results of the last one.
NewOutputManager ==
    [channels |-> << >>, total_events_sent |-> 0, total_events_failed |-> 0,
     calls |-> 0, results |-> << >>]

\* EdgeOutputChannel.send: the file is written, or the write raises
EdgeSend(channel, written) ==
    IF ~channel.enabled THEN [channel |-> channel, ok |-> FALSE, posts |-> 0]
    ELSE IF written
    THEN [channel |-> [channel EXCEPT !.success_count = @ + 1],
          ok |-> TRUE, posts |-> 0]
    ELSE [channel |-> [channel EXCEPT !.failure_count = @ + 1],
          ok |-> FALSE, posts |-> 0]

\* A send that would record a failure for every attempt that failed.
CloudSendCountingAttempts(channel, event, responses) ==
    LET failed == {k \in 1..channel.max_retries :
                      /\ responses[k] \notin {"200", "201", "202"}
                      /\ \A j \in 1..k : responses[j] \notin {"200", "201", "202"}}
        accepted == {k \in 1..channel.max_retries :
                        responses[k] \in {"200", "201", "202"}}
    IN  IF ~channel.enabled
        THEN [channel |-> channel, ok |-> FALSE, posts |-> 0]
        ELSE [channel |-> [channel EXCEPT
                              !.failure_count = @ + Cardinality(failed),
                              !.success_count = IF accepted # {} THEN @ + 1
                                                ELSE @],
              ok |-> accepted # {},
              posts |-> IF accepted = {} THEN channel.max_retries
                        ELSE Cardinality(failed) + 1]

\* CloudOutputChannel.send with _add_to_failed_queue; responses[k] is the
\* outcome of the k-th POST.  The channel after the call, the value
\* returned and the number of POSTs made.
RECURSIVE CloudSendFrom(_, _, _, _)
CloudSendFrom(channel, event, responses, attempt) ==
    IF attempt > channel.max_retries
    THEN [channel |-> channel, ok |-> FALSE, posts |-> attempt - 1]
    ELSE IF responses[attempt] \in {"200", "201", "202"}
    THEN [channel |-> [channel EXCEPT !.success_count = @ + 1],
          ok |-> TRUE, posts |-> attempt]
    ELSE IF attempt = channel.max_retries
    THEN [channel |->
              [channel EXCEPT
                  !.failure_count = @ + 1,
                  !.failed_queue =
                      IF Len(@) < max_queue_size THEN Append(@, event) ELSE @],
          ok |-> FALSE, posts |-> attempt]
    ELSE CloudSendFrom(channel, event, responses, attempt + 1)

CloudSend(channel, event, responses) ==
    IF ~channel.enabled THEN [channel |-> channel, ok |-> FALSE, posts |-> 0]
    ELSE CloudSendFrom(channel, event, responses, 1)

\* CloudOutputChannel.retry_failed_events: the channel after the call and the
\* number returned.  The for loop reads failed_queue by position while send
\* appends to it; outcome[event] holds the answers to the POSTs of one
\* resend of event.
RECURSIVE RetryFrom(_, _, _, _, _)
RetryFrom(channel, i, remaining, success_count, outcome) ==
    IF i > Len(channel.failed_queue)
    THEN [channel |-> [channel EXCEPT !.failed_queue = remaining],
          success_count |-> success_count]
    ELSE LET event == channel.failed_queue[i]
             sent == CloudSend(channel, event, outcome[event])
         IN  IF sent.ok
             THEN RetryFrom(sent.channel, i + 1, remaining,
                            success_count + 1, outcome)
             ELSE RetryFrom(sent.channel, i + 1, Append(remaining, event),
                            success_count, outcome)

RetryFailedEvents(channel, outcome) ==
    IF channel.failed_queue = << >>
    THEN [channel |-> channel, success_count |-> 0]
    ELSE RetryFrom(channel, 1, << >>, 0, outcome)

\* A send_event that would count every channel result.
SendEventCountingChannels(o, event, written, responses) ==
    LET invoked == {n \in DOMAIN o.channels : o.channels[n].enabled}
        sent(n) == IF n = "edge" THEN EdgeSend(o.channels[n], written)
                   ELSE CloudSend(o.channels[n], event, responses)
        results == [n \in invoked |-> sent(n).ok]
    IN  IF invoked = {} THEN [o EXCEPT !.results = << >>]
        ELSE [o EXCEPT
                 !.channels = [n \in DOMAIN o.channels |->
                                  IF n \in invoked THEN sent(n).channel
                                  ELSE o.channels[n]],
                 !.total_events_sent =
                     @ + Cardinality({n \in invoked : results[n]}),
                 !.total_events_failed =
                     @ + Cardinality({n \in invoked : ~results[n]}),
                 !.results = results]

\* OutputManager.send_event: the manager after the call
SendEventResult(o, event, written, responses) ==
    LET invoked == {n \in DOMAIN o.channels : o.channels[n].enabled}
        sent(n) == IF n = "edge" THEN EdgeSend(o.channels[n], written)
                   ELSE CloudSend(o.channels[n], event, responses)
        results == [n \in invoked |-> sent(n).ok]
        all_success == \A n \in invoked : results[n]
    IN  IF invoked = {} THEN [o EXCEPT !.results = << >>]
        ELSE [o EXCEPT
                 !.channels = [n \in DOMAIN o.channels |->
                                  IF n \in invoked THEN sent(n).channel
                                  ELSE o.channels[n]],
                 !.total_events_sent = IF all_success THEN @ + 1 ELSE @,
                 !.total_events_failed = IF all_success THEN @ ELSE @ + 1,
                 !.results = results]

-----------------------------------------------------------------------------
(* AppState and the command handlers (api/manager.py) *)

\* The mode requests explored: one per row of the mode table, as
\* (mode, night_sub_mode, user_mode) of ModeChange
ModeRequests ==
    { <<"disarmed", "none", "quiet">>,
      <<"home", "none", "quiet">>, <<"home", "none", "alert">>,
      <<"away", "none", "quiet">>,
      <<"night", "occupied", "quiet">>, <<"night", "none", "alert">>,
      <<"night", "perimeter", "quiet">> }

Pins == {"none", "good", "bad"}

\* The mode mapping at the head of AppState.update_modes
MapHouse(mode, night_sub) ==
    IF mode = "night"
    THEN IF night_sub = "perimeter" THEN "night_perimeter" ELSE "night_occupied"
    ELSE mode

\* AppState.update_modes: the machines after registering every configured
\* entry point and then setting the modes on all of them.
UpdateModes(mode, night_sub, um) ==
    LET reg == [ep \in DOMAIN sm \cup DOMAIN entry_points |->
                   IF ep \in DOMAIN entry_points
                   THEN RegisterEntryPoint(sm, ep, entry_points[ep])[ep]
                   ELSE sm[ep]]
    IN  CoordinatorSetModes(reg, MapHouse(mode, night_sub), um)

StateOf(smap, ep) == IF ep \in DOMAIN smap THEN smap[ep].state ELSE "quiet"

SetTimers(ts) ==
    /\ entry_timers' = ts.entry_timers
    /\ waiting' = ts.waiting
    /\ running' = ts.running

\* AppState.__init__
Init ==
    /\ house_mode = "disarmed"
    /\ user_mode = "quiet"
    /\ entry_points = << >>
    /\ sm = [ep \in {GLOBAL} |-> NewMachine("disarmed", "quiet", DefaultDelay)]
    /\ global_events = << >>
    /\ entry_timers = << >>
    /\ waiting = {}
    /\ running = [ep \in EntryPointIds |-> NoThreads]
    /\ alarm_sm = NewAlarmSM
    /\ debounce = NewDebounceFilter
    /\ pipeline = NewPipeline
    /\ expiry_thread = "idle"
    /\ output = NewOutputManager
    /\ context_checker = NewContext
    /\ direction_inferencer = NewDirectionInferencer

\* POST /api/entry-points
CreateEntryPoint(ep, delay) ==
    /\ ep \notin DOMAIN entry_points
    /\ entry_points' = [x \in DOMAIN entry_points \cup {ep} |->
                           IF x = ep THEN delay ELSE entry_points[x]]
    /\ UNCHANGED <<side, house_mode, user_mode, sm, global_events,
                   entry_timers, waiting, running>>

\* DELETE /api/entry-points/{ep_id}
DeleteEntryPoint(ep) ==
    /\ ep \in DOMAIN entry_points
    /\ entry_points' = [x \in DOMAIN entry_points \ {ep} |-> entry_points[x]]
    /\ UNCHANGED <<side, house_mode, user_mode, sm, global_events,
                   entry_timers, waiting, running>>

\* POST /api/sensors/trigger, for a sensor bound to ep
TriggerSensor(ep, inp) ==
    LET reg == IF ep = GLOBAL THEN sm
               ELSE RegisterEntryPoint(sm, ep, IF ep \in DOMAIN entry_points
                                               THEN entry_points[ep]
                                               ELSE NoneDelay)
        known == inp.signal_type \in SMSignalTypes
        have == IF ep \in DOMAIN reg THEN reg ELSE CreateMachine(reg, ep, NoneDelay)
        o == Process(have[ep], ep, SMSignal(ep, inp))
    IN  IF known
        THEN /\ sm' = [have EXCEPT ![ep] = o.m]
             /\ global_events' = IF o.notified THEN global_events \o o.recs
                                 ELSE global_events
             /\ Len(global_events') <= MaxEvents
             /\ SignalsHeld(sm', global_events') <= MaxSignals
             /\ SetTimers(OnStateChange(Timers, ep, o))
             /\ UNCHANGED <<side, house_mode, user_mode, entry_points>>
        ELSE /\ sm' = reg
             /\ UNCHANGED <<side, house_mode, user_mode, entry_points, global_events,
                            entry_timers, waiting, running>>

\* POST /api/pipeline/mode
SetMode(mode, night_sub, um) ==
    /\ sm' = UpdateModes(mode, night_sub, um)
    /\ house_mode' = MapHouse(mode, night_sub)
    /\ user_mode' = um
    /\ UNCHANGED <<side, entry_points, global_events, entry_timers, waiting, running>>

\* POST /api/pipeline/mode-with-pin
SetModeWithPin(mode, night_sub, um, pin) ==
    /\ pin = "good"
    /\ GlobalState(sm) # "triggered"
    /\ sm' = UpdateModes(mode, night_sub, um)
    /\ house_mode' = MapHouse(mode, night_sub)
    /\ user_mode' = um
    /\ SetTimers(IF mode = "disarmed" THEN CancelAllTimers(Timers) ELSE Timers)
    /\ UNCHANGED <<side, entry_points, global_events>>

\* POST /api/pipeline/disarm is registered twice.  The first registration
\* (a body holding only a docstring) is the one the router matches, so the
\* HTTP request changes nothing.
DisarmStub == UNCHANGED vars

\* disarm(), the second registration of POST /api/pipeline/disarm.  Its effect
\* is that of a keypad disarm with a valid PIN.
Disarm ==
    /\ SetTimers(CancelAllTimers(Timers))
    /\ sm' = UpdateModes("disarmed", "none", "quiet")
    /\ house_mode' = "disarmed"
    /\ user_mode' = "quiet"
    /\ UNCHANGED <<side, entry_points, global_events>>

\* AppState._handle_keypad_disarm
KeypadDisarm(pin) ==
    /\ ~(GlobalState(sm) = "pending" /\ pin = "none")
    /\ pin # "bad"
    /\ sm' = UpdateModes("disarmed", "none", "quiet")
    /\ house_mode' = "disarmed"
    /\ user_mode' = "quiet"
    /\ SetTimers(CancelAllTimers(Timers))
    /\ UNCHANGED <<side, entry_points, global_events>>

\* AppState._handle_keypad_mode_change (HOME and AWAY buttons)
KeypadModeChange(mode, pin) ==
    /\ pin # "bad"
    /\ sm' = UpdateModes(mode, "none", "quiet")
    /\ house_mode' = mode
    /\ user_mode' = "quiet"
    /\ UNCHANGED <<side, entry_points, global_events, entry_timers, waiting, running>>

\* AppState._handle_keypad_panic: "ep_sm.state = TRIGGERED" assigns to a
\* property without a setter; the AttributeError is caught and printed by
\* _handle_keypad_event, so no machine changes.
KeypadPanic == UNCHANGED vars

\* POST /api/pipeline/cancel
CancelAll ==
    LET outs == CancelAllOutcomes
        recs == RecordsInOrder(EPOrder, outs)
    IN  /\ Len(global_events) + Len(recs) <= MaxEvents
        /\ SetTimers(CancelAllTimers(Timers))
        /\ sm' = [ep \in DOMAIN sm |-> outs[ep].m]
        /\ global_events' = global_events \o recs
        /\ UNCHANGED <<side, house_mode, user_mode, entry_points>>

\* POST /api/pipeline/cancel/{entry_point_id}
CancelEntryPoint(ep) ==
    LET o == CoordinatorCancel(ep)
    IN  /\ Len(global_events) + Len(o.recs) <= MaxEvents
        /\ SetTimers(TimerCancel(Timers, ep))
        /\ sm' = IF ep \in DOMAIN sm THEN [sm EXCEPT ![ep] = o.m] ELSE sm
        /\ global_events' = global_events \o o.recs
        /\ UNCHANGED <<side, house_mode, user_mode, entry_points>>

\* POST /api/pipeline/resolve
ResolveAll ==
    LET outs == ResolveAllOutcomes
        recs == RecordsInOrder(EPOrder, outs)
    IN  /\ Len(global_events) + Len(recs) <= MaxEvents
        /\ sm' = [ep \in DOMAIN sm |-> outs[ep].m]
        /\ global_events' = global_events \o recs
        /\ UNCHANGED <<side, house_mode, user_mode, entry_points,
                       entry_timers, waiting, running>>

\* POST /api/pipeline/resolve/{entry_point_id}
ResolveEntryPoint(ep) ==
    LET o == CoordinatorResolve(ep)
    IN  /\ Len(global_events) + Len(o.recs) <= MaxEvents
        /\ sm' = IF ep \in DOMAIN sm THEN [sm EXCEPT ![ep] = o.m] ELSE sm
        /\ global_events' = global_events \o o.recs
        /\ UNCHANGED <<side, house_mode, user_mode, entry_points,
                       entry_timers, waiting, running>>

\* POST /api/pipeline/reset: the timers are cancelled and dropped;
\* SecurityCoordinator.reset resets every machine in place and clears
\* _global_events.
ResetPipeline ==
    LET c == CancelAllTimers(Timers)
    IN  /\ entry_timers' = << >>
        /\ waiting' = {}
        /\ running' = c.running
        /\ sm' = [ep \in DOMAIN sm |-> Reset(sm[ep])]
        /\ global_events' = << >>
        /\ UNCHANGED <<side, house_mode, user_mode, entry_points>>

-----------------------------------------------------------------------------
(* The steps of an entry-delay timer thread *)

MoveThread(bag, from, to) ==
    [bag EXCEPT ![from] = @ - 1, ![to] = @ + 1]

\* EntryDelayTimer._run: _stop_event.wait(timeout) returns False, the
\* callback is read and called.
TimerFire(ep) ==
    /\ ep \in waiting
    /\ RunningThreads < MaxRunning
    /\ waiting' = waiting \ {ep}
    /\ running' = [running EXCEPT ![ep][<<"cb", FALSE>>] = @ + 1]
    /\ UNCHANGED <<side, house_mode, user_mode, entry_points, sm, global_events,
                   entry_timers>>

\* _on_entry_delay_expired_v5 and the head of trigger_entry_delay_expired:
\* the thread reads the machine's state and goes on only if it is PENDING.
TimerCheck(ep, stale) ==
    /\ running[ep][<<"cb", stale>>] > 0
    /\ LET pending == ep \in DOMAIN sm /\ sm[ep].state = "pending"
       IN  /\ running' = [running EXCEPT ![ep] =
                             IF pending THEN MoveThread(@, <<"cb", stale>>,
                                                        <<"write", stale>>)
                             ELSE [@ EXCEPT ![<<"cb", stale>>] = @ - 1]]
    /\ UNCHANGED <<side, house_mode, user_mode, entry_points, sm, global_events,
                   entry_timers, waiting>>

\* trigger_entry_delay_expired after its check: _state is assigned
\* TRIGGERED and on_state_change is called (no record, no timer).
TimerWrite(ep, stale) ==
    /\ running[ep][<<"write", stale>>] > 0
    /\ running' = [running EXCEPT ![ep][<<"write", stale>>] = @ - 1]
    /\ sm' = [sm EXCEPT ![ep].state = "triggered"]
    /\ UNCHANGED <<side, house_mode, user_mode, entry_points, global_events,
                   entry_timers, waiting>>

-----------------------------------------------------------------------------

Next ==
    \/ \E ep \in ConfigurableIds, d \in Delays : CreateEntryPoint(ep, d)
    \/ \E ep \in ConfigurableIds : DeleteEntryPoint(ep)
    \/ \E ep \in SensorBindings, inp \in TriggerInputs : TriggerSensor(ep, inp)
    \/ \E r \in ModeRequests : SetMode(r[1], r[2], r[3])
    \/ \E r \in ModeRequests, pin \in Pins : SetModeWithPin(r[1], r[2], r[3], pin)
    \/ DisarmStub
    \/ Disarm
    \/ \E pin \in Pins : KeypadDisarm(pin)
    \/ \E mode \in {"home", "away"}, pin \in Pins : KeypadModeChange(mode, pin)
    \/ KeypadPanic
    \/ CancelAll
    \/ \E ep \in EntryPointIds : CancelEntryPoint(ep)
    \/ ResolveAll
    \/ \E ep \in EntryPointIds : ResolveEntryPoint(ep)
    \/ ResetPipeline
    \/ \E ep \in EntryPointIds : TimerFire(ep)
    \/ \E ep \in EntryPointIds, stale \in BOOLEAN : TimerCheck(ep, stale)
    \/ \E ep \in EntryPointIds, stale \in BOOLEAN : TimerWrite(ep, stale)

Spec == Init /\ [][Next]_vars

\* Every timer thread is a daemon thread of its own and is scheduled by the
\* operating system: a thread whose wait() has timed out, or that is inside
\* the callback, eventually takes its next step.
TimerProgress ==
    \A ep \in EntryPointIds :
        /\ WF_vars(TimerFire(ep))
        /\ \A stale \in BOOLEAN :
              /\ WF_vars(TimerCheck(ep, stale))
              /\ WF_vars(TimerWrite(ep, stale))

SpecExpiry == Init /\ [][Next]_vars /\ TimerProgress

-----------------------------------------------------------------------------
(* The AlarmStateMachine driven on its own *)

manager == <<house_mode, user_mode, entry_points, sm, global_events,
             entry_timers, waiting, running>>

\* What a call on one of the components leaves alone besides the others
apart == <<manager, expiry_thread, output, context_checker, direction_inferencer>>

ZoneTrip ==
    \E zone_type \in {"entry_exit", "perimeter", "interior", "exterior"},
       signal_type \in {"door_open", "glass_break"},
       workflow_class \in WorkflowClass,
       hm \in {"disarmed", "home", "away", "night"},
       night_sub \in {"night_perimeter", "night_occupied"},
       entry_delay_override \in {NoneDelay, 0, entry_delay_night_occupied_sec} :
        /\ alarm_sm' = TriggerZoneTrip(alarm_sm, zone_type, signal_type,
                                       workflow_class, hm, night_sub,
                                       entry_delay_override).m
        /\ UNCHANGED <<apart, debounce, pipeline>>

FollowerAcceleration ==
    \E hm \in {"disarmed", "home", "away", "night"}, late \in BOOLEAN :
        /\ alarm_sm' = TriggerFollowerAcceleration(alarm_sm, hm, late).m
        /\ UNCHANGED <<apart, debounce, pipeline>>

EntryDelayExpired ==
    /\ alarm_sm' = AlarmEntryDelayExpired(alarm_sm).m
    /\ UNCHANGED <<apart, debounce, pipeline>>

UserCancel ==
    /\ alarm_sm' = TriggerUserCancel(alarm_sm).m
    /\ UNCHANGED <<apart, debounce, pipeline>>

DisarmAlarm ==
    /\ alarm_sm' = TriggerDisarm(alarm_sm).m
    /\ UNCHANGED <<apart, debounce, pipeline>>

SirenTimeout ==
    /\ alarm_sm' = TriggerSirenTimeout(alarm_sm).m
    /\ UNCHANGED <<apart, debounce, pipeline>>

ResolveAlarm ==
    \E by_user \in BOOLEAN, verified_false \in BOOLEAN :
        /\ alarm_sm' = TriggerResolve(alarm_sm, by_user, verified_false).m
        /\ UNCHANGED <<apart, debounce, pipeline>>

AvsLevel ==
    \E level \in AvsLevels :
        /\ alarm_sm' = SetAvsLevel(alarm_sm, level)
        /\ UNCHANGED <<apart, debounce, pipeline>>

\* AlarmStateMachine.reset
ResetAlarm ==
    /\ alarm_sm' = NewAlarmSM
    /\ UNCHANGED <<apart, debounce, pipeline>>

NextAlarm ==
    \/ ZoneTrip
    \/ FollowerAcceleration
    \/ EntryDelayExpired
    \/ UserCancel
    \/ DisarmAlarm
    \/ SirenTimeout
    \/ ResolveAlarm
    \/ AvsLevel
    \/ ResetAlarm

SpecAlarm == Init /\ [][NextAlarm]_vars

-----------------------------------------------------------------------------
(* The AlarmStateMachine called from two threads: the entry delay timer *)
(* calls trigger_entry_delay_expired while the other calls arrive on the *)
(* main thread.  The machine takes no lock, so the timer thread can be *)
(* suspended between the test of _state and the call of _enter_triggered. *)

\* trigger_entry_delay_expired, up to its test of _state
ExpiryCheck ==
    /\ expiry_thread = "idle"
    /\ expiry_thread' = IF alarm_sm.state = "pending" THEN "entering"
                        ELSE "idle"
    /\ UNCHANGED <<manager, direction_inferencer, context_checker, output, alarm_sm, debounce, pipeline>>

\* trigger_entry_delay_expired, from its call of _enter_triggered on
ExpiryEnter ==
    /\ expiry_thread = "entering"
    /\ expiry_thread' = "idle"
    /\ alarm_sm' = EnterTriggered(alarm_sm, "entry_delay_expired").m
    /\ UNCHANGED <<manager, direction_inferencer, context_checker, output, debounce, pipeline>>

NextRace ==
    \/ ExpiryCheck
    \/ ExpiryEnter
    \/ ZoneTrip
    \/ FollowerAcceleration
    \/ UserCancel
    \/ DisarmAlarm
    \/ SirenTimeout
    \/ ResolveAlarm
    \/ AvsLevel
    \/ ResetAlarm

SpecRace == Init /\ [][NextRace]_vars

-----------------------------------------------------------------------------
(* The SecurityCoordinator driven on its own *)

\* What the coordinator does not own
outside == <<entry_points, entry_timers, waiting, running, side>>

\* A process that would hand the signal to every machine it knows.
ProcessSignalByEveryMachine(ep, inp) ==
    LET have == IF ep \in DOMAIN sm THEN sm ELSE CreateMachine(sm, ep, NoneDelay)
        o(x) == Process(have[x], x, SMSignal(ep, inp))
    IN  /\ sm' = [x \in DOMAIN have |-> o(x).m]
        /\ global_events' = IF o(ep).notified THEN global_events \o o(ep).recs
                            ELSE global_events
        /\ Len(global_events') <= MaxLog
        /\ SignalsHeld(sm', global_events') <= MaxLogSignals
        /\ UNCHANGED <<house_mode, user_mode, outside>>

\* SecurityCoordinator.process: a signal without entry point goes to _global
ProcessSignal(ep, inp) ==
    LET have == IF ep \in DOMAIN sm THEN sm ELSE CreateMachine(sm, ep, NoneDelay)
        o == Process(have[ep], ep, SMSignal(ep, inp))
    IN  /\ sm' = [have EXCEPT ![ep] = o.m]
        /\ global_events' = IF o.notified THEN global_events \o o.recs
                            ELSE global_events
        /\ Len(global_events') <= MaxLog
        /\ SignalsHeld(sm', global_events') <= MaxLogSignals
        /\ UNCHANGED <<house_mode, user_mode, outside>>

\* SecurityCoordinator.set_modes
ChangeModes(hm, um) ==
    /\ sm' = CoordinatorSetModes(sm, hm, um)
    /\ house_mode' = hm
    /\ user_mode' = um
    /\ UNCHANGED <<global_events, outside>>

\* SecurityCoordinator.cancel
CancelMachine(ep) ==
    LET o == CoordinatorCancel(ep)
    IN  /\ Len(global_events) + Len(o.recs) <= MaxLog
        /\ sm' = IF ep \in DOMAIN sm THEN [sm EXCEPT ![ep] = o.m] ELSE sm
        /\ global_events' = global_events \o o.recs
        /\ UNCHANGED <<house_mode, user_mode, outside>>

\* SecurityCoordinator.resolve
ResolveMachine(ep) ==
    LET o == CoordinatorResolve(ep)
    IN  /\ Len(global_events) + Len(o.recs) <= MaxLog
        /\ sm' = IF ep \in DOMAIN sm THEN [sm EXCEPT ![ep] = o.m] ELSE sm
        /\ global_events' = global_events \o o.recs
        /\ UNCHANGED <<house_mode, user_mode, outside>>

\* SecurityCoordinator.reset
ResetCoordinator ==
    /\ sm' = [ep \in DOMAIN sm |-> Reset(sm[ep])]
    /\ global_events' = << >>
    /\ UNCHANGED <<house_mode, user_mode, outside>>

NextCoordinator ==
    \/ \E ep \in EntryPointIds, inp \in TriggerInputs : ProcessSignal(ep, inp)
    \/ \E hm \in HouseMode, um \in UserMode : ChangeModes(hm, um)
    \/ \E ep \in EntryPointIds : CancelMachine(ep)
    \/ \E ep \in EntryPointIds : ResolveMachine(ep)
    \/ ResetCoordinator

SpecCoordinator == Init /\ [][NextCoordinator]_vars

-----------------------------------------------------------------------------
(* The DebounceFilter driven on its own *)

MaxHistory == 3     \* longest _signal_history list explored
MaxTime == 70       \* latest call time explored, in seconds
MaxPipelineHistory == 2  \* longest _signal_history list under the pipeline

\* The signal types offered to the filter
DebounceSignals == LifeSafetySignals \cup
    {"glass_break", "door_open", "door_close", "motion_active",
     "person_detected"}

\* Seconds between two calls of filter
Elapses == {0, door_bounce_window_sec, history_keep_sec}

\* signal_pipeline.process, debounce stage: filter(signal, now)
FilterSignal(signal_type, elapsed) ==
    /\ debounce.now + elapsed <= MaxTime
    /\ debounce' = Filter(debounce, signal_type, debounce.now + elapsed)
    /\ Len(debounce'.history) <= MaxHistory
    /\ UNCHANGED <<apart, alarm_sm, pipeline>>

\* DebounceFilter.reset
ResetDebounce ==
    /\ debounce' = [NewDebounceFilter EXCEPT !.now = debounce.now]
    /\ UNCHANGED <<apart, alarm_sm, pipeline>>

NextDebounce ==
    \/ \E signal_type \in DebounceSignals, elapsed \in Elapses :
          FilterSignal(signal_type, elapsed)
    \/ ResetDebounce

SpecDebounce == Init /\ [][NextDebounce]_vars

-----------------------------------------------------------------------------
(* The SignalPipeline driven on its own, with its AlarmStateMachine and *)
(* its DebounceFilter *)

\* The signals offered to the pipeline: the zone type is the one that
\* EvidenceBuilder.build reads from the topology for the signal's zone.
PipelineInputs ==
    { [signal_type |-> "door_open", zone_id |-> "zone_front",
       zone_type |-> "entry_exit", entry_point_id |-> "ep_front"],
      [signal_type |-> "motion_active", zone_id |-> "zone_hall",
       zone_type |-> "interior", entry_point_id |-> "none"],
      [signal_type |-> "person_detected", zone_id |-> "zone_yard",
       zone_type |-> "exterior", entry_point_id |-> "none"],
      [signal_type |-> "glass_break", zone_id |-> "zone_window",
       zone_type |-> "perimeter", entry_point_id |-> "none"],
      [signal_type |-> "smoke_detected", zone_id |-> "zone_hall",
       zone_type |-> "interior", entry_point_id |-> "none"],
      [signal_type |-> "package_delivered", zone_id |-> "zone_yard",
       zone_type |-> "exterior", entry_point_id |-> "none"] }

\* Seconds between two calls of process: none, or more than the follower
\* window and every cooldown
PipelineElapses == {0, follower_path_sec + motion_cooldown_sec}

\* SignalPipeline.process(signal, now=...)
PipelineSignal(signal, elapsed) ==
    LET now == debounce.now + elapsed
        result == PipelineProcess(pipeline, alarm_sm, debounce, signal, now)
    IN  /\ now <= MaxTime
        /\ Len(result.debounce.history) <= MaxPipelineHistory
        /\ pipeline' = result.pipeline
        /\ alarm_sm' = result.alarm_sm
        /\ debounce' = result.debounce
        /\ UNCHANGED apart

\* SignalPipeline.set_mode
PipelineSetMode(hm, night_sub) ==
    /\ pipeline' = [pipeline EXCEPT !.house_mode = hm,
                                    !.night_sub_mode = night_sub]
    /\ UNCHANGED <<apart, alarm_sm, debounce>>

\* The tail shared by disarm, trigger_entry_delay_expired and resolve: a
\* successful transition is copied to the active event.
PipelineAfter(result, disposition, triggered, recalculate) ==
    LET old == pipeline.active_event[1]
        event == [old EXCEPT
                     !.alarm_state = result.m.state,
                     !.event_disposition =
                         IF disposition THEN result.m.disposition ELSE @,
                     !.triggered_at =
                         IF triggered THEN result.m.triggered_at ELSE @]
    IN  /\ alarm_sm' = result.m
        /\ pipeline' =
               IF result.success /\ pipeline.active_event # <<>>
               THEN [pipeline EXCEPT !.active_event =
                        <<IF recalculate
                          THEN UpdateEventAlerts(event, pipeline.ledger)
                          ELSE event>>]
               ELSE pipeline
        /\ UNCHANGED <<apart, debounce>>

\* SignalPipeline.disarm
PipelineDisarm == PipelineAfter(TriggerDisarm(alarm_sm), TRUE, FALSE, TRUE)

\* SignalPipeline.trigger_entry_delay_expired
PipelineEntryDelayExpired ==
    PipelineAfter(AlarmEntryDelayExpired(alarm_sm), FALSE, TRUE, TRUE)

\* SignalPipeline.resolve
PipelineResolve(by_user, verified_false) ==
    PipelineAfter(TriggerResolve(alarm_sm, by_user, verified_false),
                  TRUE, FALSE, FALSE)

\* SignalPipeline.reset
PipelineReset ==
    /\ pipeline' = [NewPipeline EXCEPT
                       !.house_mode = pipeline.house_mode,
                       !.night_sub_mode = pipeline.night_sub_mode]
    /\ alarm_sm' = NewAlarmSM
    /\ debounce' = [NewDebounceFilter EXCEPT !.now = debounce.now]
    /\ UNCHANGED apart

NextPipeline ==
    \/ \E signal \in PipelineInputs, elapsed \in PipelineElapses :
          PipelineSignal(signal, elapsed)
    \/ \E mode \in {<<"disarmed", "none">>, <<"home", "none">>,
                    <<"away", "none">>, <<"night", "night_occupied">>,
                    <<"night", "night_perimeter">>} :
          PipelineSetMode(mode[1], mode[2])
    \/ PipelineDisarm
    \/ PipelineEntryDelayExpired
    \/ EntryDelayExpired
    \/ \E by_user \in BOOLEAN, verified_false \in BOOLEAN :
          PipelineResolve(by_user, verified_false)
    \/ PipelineReset

SpecPipeline == Init /\ [][NextPipeline]_vars

-----------------------------------------------------------------------------
(* The ContextEvidenceChecker called on its own *)

\* Most ContextSignal entries kept by the caller
MaxContextSignals == 2

\* Seconds between two signals: none, the context window, and just more
ContextElapses == {0, T_CONTEXT_SEC, T_CONTEXT_SEC + 1}

\* The base entry delays of the calls: a third below 10 and one above
BaseDelays == {15, 45}

\* A suspicion-light signal arrives and the caller keeps it as a
\* ContextSignal of its entry point.
ContextSignalSeen(signal_type, ep, elapsed) ==
    /\ Len(context_checker.recent_signals) < MaxContextSignals
    /\ context_checker.now + elapsed <= MaxTime
    /\ context_checker' =
           [context_checker EXCEPT
               !.now = @ + elapsed,
               !.recent_signals =
                   Append(@, [signal_type |-> signal_type,
                              timestamp |-> context_checker.now + elapsed,
                              entry_point_id |-> ep])]
    /\ UNCHANGED <<manager, direction_inferencer, expiry_thread, output, alarm_sm, debounce, pipeline>>

\* check_for_context_evidence for a trigger that arrives elapsed seconds
\* after the last signal
CheckContext(trigger_signal, ep, hm, night_sub, base, elapsed) ==
    /\ context_checker.now + elapsed <= MaxTime
    /\ context_checker' =
           [context_checker EXCEPT
               !.now = @ + elapsed,
               !.checked =
                   <<CheckForContextEvidence(
                         trigger_signal, context_checker.now + elapsed, ep,
                         context_checker.recent_signals, hm, night_sub, base)>>]
    /\ UNCHANGED <<manager, direction_inferencer, expiry_thread, output, alarm_sm, debounce, pipeline>>

\* The caller starts over.
ForgetContext ==
    /\ context_checker' = NewContext
    /\ UNCHANGED <<manager, direction_inferencer, expiry_thread, output, alarm_sm, debounce, pipeline>>

NextContext ==
    \/ \E signal_type \in {"person_detected", "loiter", "motion_active"},
          ep \in {"ep_front", "ep_back"}, elapsed \in ContextElapses :
          ContextSignalSeen(signal_type, ep, elapsed)
    \/ \E trigger_signal \in {"door_open", "glass_break", "panic"},
          ep \in {"ep_front", "none"},
          mode \in {<<"home", "none">>, <<"away", "none">>,
                    <<"night", "night_occupied">>,
                    <<"night", "night_perimeter">>},
          base \in BaseDelays, elapsed \in ContextElapses :
          CheckContext(trigger_signal, ep, mode[1], mode[2], base, elapsed)
    \/ ForgetContext

SpecContext == Init /\ [][NextContext]_vars

-----------------------------------------------------------------------------
(* The DirectionInferencer as trigger_sensor drives it *)

\* Seconds between two sensor triggers: none, the lookback, and just more
InferencerElapses == {0, lookback_seconds, lookback_seconds + 1}

\* Latest trigger time explored for the inferencer, in seconds
MaxInferencerTime == 22

\* What the sensors other than door contacts report: the zone type of the
\* binding and the signal_type string of the request
InferencerInputs ==
    {<<"interior", "motion_active">>, <<"exterior", "person_detected">>,
     <<"interior", "motion_inactive">>, <<"exterior", "motion_active">>}

\* trigger_sensor up to the direction inference, for a signal other than
\* door_open
InferencerSignal(zone_type, signal_type, elapsed) ==
    LET now == direction_inferencer.now + elapsed
    IN  /\ now <= MaxInferencerTime
        /\ direction_inferencer' =
               [direction_inferencer EXCEPT
                   !.now = now,
                   !.recent_signals =
                       InferencerRecordSignal(@, now, zone_type, signal_type)]
        /\ UNCHANGED <<manager, context_checker, expiry_thread, output, alarm_sm, debounce, pipeline>>

\* trigger_sensor up to the direction inference, for a door_open: hint is
\* <<>> when the request has no from_inside, <<b>> when it gives b.
InferencerDoorOpen(hint, elapsed) ==
    LET now == direction_inferencer.now + elapsed
        recorded == InferencerRecordSignal(direction_inferencer.recent_signals,
                                           now, "entry_exit", "door_open")
    IN  /\ now <= MaxInferencerTime
        /\ direction_inferencer' =
               [recent_signals |-> recorded, now |-> now,
                direction |->
                    IF hint # <<>>
                    THEN <<[from_inside |-> hint[1], reason |-> "manual"]>>
                    ELSE <<InferDirection(recorded, now)>>]
        /\ UNCHANGED <<manager, context_checker, expiry_thread, output, alarm_sm, debounce, pipeline>>

\* DirectionInferencer.clear, from POST /api/reset
InferencerClear ==
    /\ direction_inferencer' =
           [direction_inferencer EXCEPT !.recent_signals = <<>>]
    /\ UNCHANGED <<manager, context_checker, expiry_thread, output, alarm_sm, debounce, pipeline>>

NextInferencer ==
    \/ \E inp \in InferencerInputs, elapsed \in InferencerElapses :
          InferencerSignal(inp[1], inp[2], elapsed)
    \/ \E hint \in {<<>>, <<TRUE>>, <<FALSE>>}, elapsed \in InferencerElapses :
          InferencerDoorOpen(hint, elapsed)
    \/ InferencerClear

SpecInferencer == Init /\ [][NextInferencer]_vars

-----------------------------------------------------------------------------
(* The OutputManager driven on its own *)

\* The sequences of outcomes that the attempts of one send can meet
ResponseSeqs == [1..MaxRetries -> Responses]

\* OutputManager.register_channel
RegisterChannel(name, max_retries) ==
    /\ output' = [output EXCEPT !.channels =
                     [n \in DOMAIN @ \cup {name} |->
                         IF n = name THEN NewChannel(max_retries) ELSE @[n]]]
    /\ UNCHANGED <<manager, direction_inferencer, context_checker, expiry_thread, alarm_sm, debounce, pipeline>>

\* OutputManager.enable_channel and disable_channel
EnableChannel(name, enabled) ==
    /\ output' = IF name \in DOMAIN output.channels
                 THEN [output EXCEPT !.channels[name].enabled = enabled]
                 ELSE output
    /\ UNCHANGED <<manager, direction_inferencer, context_checker, expiry_thread, alarm_sm, debounce, pipeline>>

\* OutputManager.send_event
SendEvent(event, written, responses) ==
    /\ output.calls < MaxSends
    /\ output' = [SendEventResult(output, event, written, responses) EXCEPT
                     !.calls = IF \E n \in DOMAIN output.channels :
                                     output.channels[n].enabled
                               THEN @ + 1 ELSE @]
    /\ UNCHANGED <<manager, direction_inferencer, context_checker, expiry_thread, alarm_sm, debounce, pipeline>>

\* CloudOutputChannel.send, called on the channel itself
CloudChannelSend(event, responses) ==
    /\ "cloud" \in DOMAIN output.channels
    /\ LET sent == CloudSend(output.channels["cloud"], event, responses)
       IN  /\ sent.channel.success_count + sent.channel.failure_count
                  <= MaxSends
           /\ output' = [output EXCEPT !.channels["cloud"] = sent.channel]
    /\ UNCHANGED <<manager, direction_inferencer, context_checker, expiry_thread, alarm_sm, debounce, pipeline>>

\* What the resends of one retry_failed_events call meet, event by event:
\* the server accepts the first POST, or refuses every one
RetryOutcomes ==
    [OutputEvents -> {[k \in 1..MaxRetries |-> "200"],
                      [k \in 1..MaxRetries |-> "500"]}]

\* CloudOutputChannel.retry_failed_events
CloudRetryFailedEvents(outcome) ==
    /\ "cloud" \in DOMAIN output.channels
    /\ LET retried == RetryFailedEvents(output.channels["cloud"], outcome)
       IN  /\ retried.channel.success_count + retried.channel.failure_count
                  <= MaxSends + max_queue_size
           /\ output' = [output EXCEPT !.channels["cloud"] = retried.channel]
    /\ UNCHANGED <<manager, direction_inferencer, context_checker, expiry_thread, alarm_sm, debounce, pipeline>>

NextOutput ==
    \/ \E outcome \in RetryOutcomes : CloudRetryFailedEvents(outcome)
    \/ \E name \in ChannelNames, max_retries \in 0..MaxRetries :
          RegisterChannel(name, max_retries)
    \/ \E name \in ChannelNames, enabled \in BOOLEAN :
          EnableChannel(name, enabled)
    \/ \E event \in OutputEvents, written \in BOOLEAN,
          responses \in ResponseSeqs : SendEvent(event, written, responses)
    \/ \E event \in OutputEvents, responses \in ResponseSeqs :
          CloudChannelSend(event, responses)

SpecOutput == Init /\ [][NextOutput]_vars

-----------------------------------------------------------------------------

\* A get_events that would return the newest record first.
GetEventsNewestFirst(events, limit) ==
    LET n == Len(events)
        k == IF limit = 0 \/ limit > n THEN n ELSE limit
    IN  [i \in 1..k |-> events[n + 1 - i]]

\* SecurityCoordinator.get_events: the slice _global_events[-limit:], which
\* is the whole list for a limit of 0 and for a limit beyond its length.
GetEvents(events, limit) ==
    LET n == Len(events)
        k == IF limit = 0 \/ limit > n THEN n ELSE limit
    IN  SubSeq(events, n - k + 1, n)

-----------------------------------------------------------------------------
(* Vocabulary of the properties *)

\* A timer is live while its thread can still deliver the expiry it was
\* started for: the thread is blocked in wait(), or it is past wait() and
\* cancel() has not been called since.
TimerLiveIn(w, r, ep) ==
    ep \in w \/ r[ep][<<"cb", FALSE>>] + r[ep][<<"write", FALSE>>] > 0

TimerLive(ep) == TimerLiveIn(waiting, running, ep)

\* The machine has an open event: _event_start_time is set and
\* _event_signals is accumulating.
OpenEvent(m) == m.event_start /\ m.event_signals # <<>>

\* The machine has no open event.
NoEvent(m) == ~m.event_start /\ m.event_signals = <<>>

NonQuiet == {"pre", "pending", "triggered"}

GlassBreak ==
    [signal_type |-> "glass_break", zone_type |-> "perimeter", from_inside |-> FALSE]

DoorOpen ==
    [signal_type |-> "door_open", zone_type |-> "entry_exit", from_inside |-> FALSE]

\* The records appended to _global_events by the step, for entry point ep
SealedFor(ep) ==
    IF Len(global_events') < Len(global_events) THEN {}
    ELSE {i \in (Len(global_events) + 1)..Len(global_events') :
             global_events'[i].entry_point_id = ep}

-----------------------------------------------------------------------------
(* Claims *)

\* C1: a machine in pending has a live entry-delay timer, and a machine in
\* quiet, pre or triggered has none (leaving pending by any path cancels it).
C1_TimerLiveOnlyInPending ==
    \A ep \in DOMAIN sm :
        /\ sm[ep].state = "pending" => TimerLive(ep)
        /\ sm[ep].state \in {"quiet", "pre", "triggered"} => ~TimerLive(ep)

\* C2: a cancelled entry-delay timer never produces a transition: no thread of
\* a timer on which cancel() has been called writes TRIGGERED to a machine.
C2_CancelledTimerNeverActs ==
    [][\A ep \in EntryPointIds : ~TimerWrite(ep, TRUE)]_vars

C4_DisarmedQuietNoTimer ==
    [][(house_mode # "disarmed" /\ house_mode' = "disarmed")
          => \A ep \in DOMAIN sm' :
                 /\ sm'[ep].state = "quiet"
                 /\ ~TimerLiveIn(waiting', running', ep)
      ]_vars

\* C5: a machine never goes from pre, pending or triggered to quiet without
\* exactly one record for its event being appended to the log; when the step
\* enters disarmed the record's end-reason is canceled.
C5_QuietOnlyBySealing ==
    [][\A ep \in DOMAIN sm :
          (sm[ep].state \in NonQuiet /\ sm'[ep].state = "quiet")
          => /\ Cardinality(SealedFor(ep)) = 1
             /\ \A i \in SealedFor(ep) :
                    /\ global_events'[i].signals = sm[ep].event_signals
                    /\ (house_mode # "disarmed" /\ house_mode' = "disarmed")
                           => global_events'[i].end_reason = "canceled"
      ]_vars

\* C6: every machine in pre, pending or triggered has an open event and every
\* machine in quiet has none.
C6_OpenEventIffNonQuiet ==
    \A ep \in DOMAIN sm :
        /\ sm[ep].state \in NonQuiet => OpenEvent(sm[ep])
        /\ sm[ep].state = "quiet" => NoEvent(sm[ep])

\* C7: a sensor signal processed while the machine is triggered leaves it
\* triggered, in every house mode and user mode.
C7_TriggeredAbsorbsSignals ==
    [][\A ep \in SensorBindings : \A inp \in TriggerInputs :
          (ep \in DOMAIN sm /\ sm[ep].state = "triggered"
              /\ TriggerSensor(ep, inp))
          => sm'[ep].state = "triggered"
      ]_vars

\* C8: while the house mode is disarmed every machine of the coordinator is
\* quiet.
C8_DisarmedAllQuiet ==
    house_mode = "disarmed" => \A ep \in DOMAIN sm : sm[ep].state = "quiet"

\* C9: a smoke, CO or fire-alarm signal leaves the alarm in triggered at the
\* end of the step that processes it, in every house mode.
C9_LifeSafetyTriggers ==
    [][\A ep \in SensorBindings : \A inp \in TriggerInputs :
          (inp.signal_type \in LifeSafetySignals /\ TriggerSensor(ep, inp))
          => GlobalState(sm') = "triggered"
      ]_vars

\* C10: a machine enters triggered only by timer expiry while it is in
\* pending or by the processing of a signal addressed to it.
C10_TriggeredOnlyByExpiryOrSignal ==
    [][\A ep \in DOMAIN sm' :
          (StateOf(sm, ep) # "triggered" /\ sm'[ep].state = "triggered")
          => \/ /\ StateOf(sm, ep) = "pending"
                /\ \E stale \in BOOLEAN : TimerWrite(ep, stale)
             \/ \E inp \in TriggerInputs : TriggerSensor(ep, inp)
      ]_vars

\* C11: no machine is in pending with an entry delay of 0 (a request for
\* pending with delay 0 ends the step in triggered).
C11_NoPendingWithZeroDelay ==
    \A ep \in DOMAIN sm :
        sm[ep].state = "pending" => sm[ep].entry_delay_sec # 0

\* C12: every record in the event log has end_state quiet and an end-reason
\* among canceled, resolved, attention_logged and triggered-timeout.
C12_RecordsEndQuiet ==
    \A i \in DOMAIN global_events :
        /\ global_events[i].end_state = "quiet"
        /\ global_events[i].end_reason \in
               {"canceled", "resolved", "attention_logged", "triggered-timeout"}

\* C12 witness: the log holds the record of a pending event that was
\* cancelled.
C12_Witness ==
    /\ Len(global_events) = 1
    /\ global_events[1].start_state = "pending"
    /\ global_events[1].end_reason = "canceled"

\* C13: a cancel for an entry point whose machine is not in pre or pending,
\* and a resolve for one whose machine is not in triggered (an unknown id
\* included), report no success and leave every machine and the event log
\* unchanged; after any cancel the machine is in neither pre nor pending, so
\* a second cancel is such a no-op.
C13_RejectedCancelResolveChangeNothing ==
    [][\A ep \in EntryPointIds :
          /\ (CancelEntryPoint(ep) /\ StateOf(sm, ep) \notin {"pre", "pending"})
                 => /\ ~CoordinatorCancel(ep).success
                    /\ sm' = sm
                    /\ global_events' = global_events
          /\ (ResolveEntryPoint(ep) /\ StateOf(sm, ep) # "triggered")
                 => /\ ~CoordinatorResolve(ep).success
                    /\ sm' = sm
                    /\ global_events' = global_events
          /\ CancelEntryPoint(ep) => StateOf(sm', ep) \notin {"pre", "pending"}
      ]_vars

\* C13 witness: ep_front went from pending to triggered by a glass-break and
\* a cancel was then issued: its timer is stopped, the machine is still
\* triggered with its event intact and nothing is in the log.
C13_Witness ==
    /\ "ep_front" \in DOMAIN sm
    /\ sm["ep_front"].state = "triggered"
    /\ sm["ep_front"].event_signals =
           << SMSignal("ep_front", DoorOpen), SMSignal("ep_front", GlassBreak) >>
    /\ "ep_front" \in DOMAIN entry_timers
    /\ entry_timers["ep_front"].stop_event
    /\ RunningThreads = 0
    /\ global_events = << >>

C15_DecisionTable ==
    LET person == [signal_type |-> "person_detected", zone_type |-> "exterior",
                   from_inside |-> FALSE]
        door_out == [signal_type |-> "door_open", zone_type |-> "entry_exit",
                     from_inside |-> FALSE]
        door_in == [signal_type |-> "door_open", zone_type |-> "entry_exit",
                    from_inside |-> TRUE]
        motion == [signal_type |-> "motion_active", zone_type |-> "interior",
                   from_inside |-> FALSE]
        glass == [signal_type |-> "glass_break", zone_type |-> "perimeter",
                  from_inside |-> FALSE]
        columns == <<person, door_out, door_in, motion, glass>>
        row(hm, um) ==
            IF hm = "disarmed"
            THEN <<"ignore", "ignore", "ignore", "ignore", "ignore">>
            ELSE IF hm = "home" /\ um = "alert"
            THEN <<"pre", "pre", "pre", "pre", "triggered">>
            ELSE IF hm = "home"
            THEN <<"attention", "attention", "ignore", "ignore", "triggered">>
            ELSE IF hm = "away"
            THEN <<"pre", "pending", "pending", "triggered", "triggered">>
            ELSE IF hm = "night_occupied" /\ um = "alert"
            THEN <<"pre", "pending", "pre", "attention", "triggered">>
            ELSE IF hm = "night_occupied"
            THEN <<"pre", "pending", "pre", "ignore", "triggered">>
            ELSE <<"pre", "triggered", "triggered", "triggered", "triggered">>
    IN  \A ep \in DOMAIN sm : \A i \in 1..5 :
            sm[ep].state = "quiet" =>
                LET target == row(sm[ep].house_mode, sm[ep].user_mode)[i]
                    o == Process(sm[ep], ep, SMSignal(ep, columns[i]))
                    emitted == IF o.notified THEN o.recs ELSE <<>>
                IN  /\ o.m.state = IF target \in {"ignore", "attention"}
                                   THEN "quiet" ELSE target
                    /\ target = "attention" =>
                          /\ Len(emitted) = 1
                          /\ emitted[1].end_reason = "attention_logged"
                    /\ target # "attention" => emitted = <<>>

\* An interior motion was processed by the quiet front-door machine in
\* night-occupied / alert: its attention event is in the log and the machine
\* is quiet.
C15_Witness ==
    /\ "ep_front" \in DOMAIN sm
    /\ sm["ep_front"].state = "quiet"
    /\ sm["ep_front"].house_mode = "night_occupied"
    /\ sm["ep_front"].user_mode = "alert"
    /\ Len(global_events) = 1
    /\ global_events[1].entry_point_id = "ep_front"
    /\ global_events[1].end_reason = "attention_logged"
    /\ global_events[1].signals[1].signal_type = "motion_active"


\* C16: no machine is ever left in the attention state, and a trigger whose
\* handler routes the signal to attention (home / quiet: exterior person or
\* door opened from outside; night-occupied / alert and quiet: interior
\* motion) leaves the machine's state as it was and appends exactly one
\* record, with end reason attention_logged, to the event log.
C16_AttentionIsNeverAState ==
    [][ /\ \A ep \in DOMAIN sm' : sm'[ep].state # "attention"
        /\ \A ep \in EntryPointIds : \A inp \in TriggerInputs :
              LET before == StateOf(sm, ep)
                  toAttention ==
                      /\ ep \in DOMAIN sm'
                      /\ \/ /\ sm'[ep].house_mode = "home"
                            /\ sm'[ep].user_mode = "quiet"
                            /\ \/ IsExteriorPerson(inp)
                               \/ /\ inp.signal_type = "door_open"
                                  /\ ~inp.from_inside
                         \/ /\ sm'[ep].house_mode = "night_occupied"
                            /\ sm'[ep].user_mode = "alert"
                            /\ before = "quiet"
                            /\ IsInteriorMotion(inp)
              IN  (toAttention /\ TriggerSensor(ep, inp)) =>
                      /\ sm'[ep].state = before
                      /\ Len(global_events') = Len(global_events) + 1
                      /\ SubSeq(global_events', 1, Len(global_events))
                             = global_events
                      /\ global_events'[Len(global_events')].end_reason
                             = "attention_logged" ]_vars

\* The front-door machine was in triggered when a home / quiet attention
\* signal arrived: it is still in triggered and the log holds the attention
\* record.
C16_Witness ==
    /\ "ep_front" \in DOMAIN sm
    /\ sm["ep_front"].state = "triggered"
    /\ sm["ep_front"].event_signals = <<>>
    /\ Len(global_events) = 1
    /\ global_events[1].end_reason = "attention_logged"
    /\ Len(global_events[1].signals) = 2


\* C17: a signal processed while a machine is in pre, pending or triggered
\* never discards the open event: the start time stays set and the signals
\* accumulated so far remain, in order, the head of the event's signals; and
\* the record sealed by cancel or resolve carries exactly those signals.
C17_OpenEventSurvivesAttention ==
    [][ \A ep \in DOMAIN sm :
          /\ \A inp \in TriggerInputs :
                ( /\ sm[ep].state \in NonQuiet
                  /\ sm[ep].event_start
                  /\ TriggerSensor(ep, inp) ) =>
                    /\ sm'[ep].event_start
                    /\ Len(sm'[ep].event_signals) >= Len(sm[ep].event_signals)
                    /\ SubSeq(sm'[ep].event_signals, 1,
                              Len(sm[ep].event_signals)) = sm[ep].event_signals
          /\ ( /\ sm[ep].state \in NonQuiet
               /\ CancelEntryPoint(ep) \/ ResolveEntryPoint(ep)
               /\ Len(global_events') = Len(global_events) + 1 ) =>
                    global_events'[Len(global_events')].signals
                        = sm[ep].event_signals ]_vars


\* C18: the global_state reported by get_status is the state of some machine
\* of the coordinator and no machine, _global included, has a state of
\* higher priority in the order quiet < attention < pre < pending <
\* triggered; it is quiet exactly when every machine is quiet.
C18_GlobalStateIsWorstCase ==
    LET order == <<"quiet", "attention", "pre", "pending", "triggered">>
        rank(s) == CHOOSE i \in 1..5 : order[i] = s
        reported == GlobalState(sm)
    IN  /\ \E ep \in DOMAIN sm : sm[ep].state = reported
        /\ \A ep \in DOMAIN sm : rank(sm[ep].state) <= rank(reported)
        /\ (reported = "quiet") <=> (\A ep \in DOMAIN sm : sm[ep].state = "quiet")

\* The _global machine is triggered while the front door is only in
\* pending: the reported global state is that of _global.
C18_Witness ==
    /\ "ep_front" \in DOMAIN sm
    /\ sm[GLOBAL].state = "triggered"
    /\ sm["ep_front"].state = "pending"
    /\ GlobalState(sm) = "triggered"


\* C19: the debounce filter never rejects a smoke, CO or fire-alarm signal:
\* the last call did not, and no such signal offered next would be
\* rejected, whatever the sensor's history holds.
C19_LifeSafetyNeverFiltered ==
    /\ debounce.signal_type \in LifeSafetySignals => ~debounce.should_filter
    /\ \A signal_type \in LifeSafetySignals : \A elapsed \in Elapses :
          ~Filter(debounce, signal_type, debounce.now + elapsed).should_filter

\* A smoke signal repeated inside the merge window, on a sensor whose
\* history starts with a motion, was let through.
C19_Witness ==
    /\ debounce.signal_type = "smoke_detected"
    /\ ~debounce.should_filter
    /\ Len(debounce.history) = 3
    /\ debounce.history[1][2] = "motion_active"
    /\ debounce.history[2][2] = "smoke_detected"
    /\ debounce.history[3][2] = "smoke_detected"
    /\ debounce.history[3][1] - debounce.history[2][1]
           < life_safety_merge_window_sec


\* C20: a machine in pending does not stay there for ever: with nothing but
\* the timer threads obliged to run, it leaves pending, for triggered when
\* the entry-delay timer expires or a signal escalates, for quiet when a
\* cancel, a disarm, a mode change or a reset intervenes.
C20_PendingEventuallyLeft ==
    \A ep \in EntryPointIds :
        (StateOf(sm, ep) = "pending")
            ~> (StateOf(sm, ep) \in {"triggered", "quiet"})


\* The front-door machine was put in pending by a door opening in away mode
\* and reached triggered with no further signal: the timer started for that
\* pending was never cancelled and its thread has run to completion.
C20_Witness ==
    /\ "ep_front" \in DOMAIN sm
    /\ sm["ep_front"].state = "triggered"
    /\ sm["ep_front"].house_mode = "away"
    /\ Len(sm["ep_front"].event_signals) = 1
    /\ sm["ep_front"].event_signals[1].signal_type = "door_open"
    /\ "ep_front" \in DOMAIN entry_timers
    /\ entry_timers["ep_front"].callback
    /\ ~entry_timers["ep_front"].stop_event
    /\ "ep_front" \notin waiting
    /\ RunningThreads = 0

\* C21: in away mode, with the 30 s entry delay of the entry point and no
\* corroborating evidence (no interior evidence, a single zone), a door-open
\* at the entry point leaves the alarm in pending with user alert level 3
\* and dispatch readiness 1; the expiry of the entry delay then moves it to
\* triggered with the same levels; a resolve of the triggered alarm returns
\* it to quiet and marks the event with a resolved disposition.
C21_AwayEntry ==
 [][LET door == [signal_type |-> "door_open", zone_id |-> "zone_front",
                 zone_type |-> "entry_exit", entry_point_id |-> "ep_front"]
        alone(ledger) == /\ \A e \in ledger : e[2] # "interior"
                         /\ Cardinality({e[1] : e \in ledger}) <= 1
        canceled == {"canceled_before_trigger", "canceled_after_trigger",
                     "verified_false"}
        levels(event, user, dispatch) ==
            /\ event.user_alert_level = user
            /\ event.dispatch_readiness_local = dispatch
        entry ==
            /\ pipeline.house_mode = "away"
            /\ alarm_sm.state \in {"quiet", "pre"}
            /\ pipeline.active_event # <<>> =>
                   /\ pipeline.active_event[1].house_mode = "away"
                   /\ pipeline.active_event[1].event_disposition \notin canceled
            /\ alone(pipeline'.ledger)
            /\ ~debounce'.should_filter
            /\ \E elapsed \in PipelineElapses : PipelineSignal(door, elapsed)
        expiry ==
            /\ alarm_sm.state = "pending"
            /\ pipeline.active_event # <<>>
            /\ pipeline.active_event[1].house_mode = "away"
            /\ pipeline.active_event[1].workflow_class = "security_heavy"
            /\ pipeline.active_event[1].event_disposition \notin canceled
            /\ alone(pipeline.ledger)
            /\ PipelineEntryDelayExpired \/ EntryDelayExpired
        resolve ==
            /\ alarm_sm.state = "triggered"
            /\ pipeline.active_event # <<>>
            /\ \E by_user \in BOOLEAN : PipelineResolve(by_user, FALSE)
    IN  /\ entry =>
             /\ alarm_sm'.state = "pending"
             /\ alarm_sm'.entry_delay_sec = entry_delay_away_sec
             /\ pipeline'.active_event[1].alarm_state = "pending"
             /\ levels(pipeline'.active_event[1], 3, 1)
        /\ expiry =>
             /\ alarm_sm'.state = "triggered"
             /\ levels(pipeline'.active_event[1], 3, 1)
        /\ resolve =>
             /\ alarm_sm'.state = "quiet"
             /\ pipeline'.active_event[1].alarm_state = "quiet"
             /\ pipeline'.active_event[1].event_disposition \in
                    {"resolved_by_user", "resolved_timeout"}]_vars

\* A door-open event of away mode that went through pending and the expiry
\* of its delay, and was resolved by the user.
C21_Witness ==
    /\ alarm_sm.state = "quiet"
    /\ alarm_sm.last_transition = <<"resolve_by_user", "triggered", "quiet">>
    /\ pipeline.ledger = {<<"zone_front", "entry_exit">>}
    /\ pipeline.active_event # <<>>
    /\ pipeline.active_event[1].house_mode = "away"
    /\ pipeline.active_event[1].event_type = "intrusion_attempted"
    /\ pipeline.active_event[1].entry_delay_sec = entry_delay_away_sec
    /\ pipeline.active_event[1].triggered_at
    /\ pipeline.active_event[1].event_disposition = "resolved_by_user"
    /\ pipeline.active_event[1].user_alert_level = 3
    /\ pipeline.active_event[1].dispatch_readiness_local = 1

\* C22: the coordinator's event log is a bounded ring, its length never
\* exceeds its capacity (the oldest records are dropped to admit new ones).
\* The capacity is taken one record below the longest log explored: a log
\* that appends without dropping exceeds every capacity in the same way.
C22_EventLogWithinCapacity == Len(global_events) <= MaxLog - 1

\* C23: the event log keeps the order of the transitions that sealed its
\* records: a step only appends to the log (or empties it, on reset), so
\* the records of one machine stay in the order in which they were sealed;
\* and get_events returns the last records of the log in log order, oldest
\* first and the most recently sealed record last.
C23_LogInTransitionOrder ==
    [][LET old == global_events
           new == global_events'
           of(log, ep) == SelectSeq(log, LAMBDA r : r.entry_point_id = ep)
       IN  /\ \/ new = << >>
              \/ /\ Len(new) >= Len(old)
                 /\ SubSeq(new, 1, Len(old)) = old
                 /\ \A ep \in EntryPointIds :
                        LET before == of(old, ep)
                            after == of(new, ep)
                        IN  SubSeq(after, 1, Len(before)) = before
           /\ \A limit \in 0..(MaxLog + 1) :
                  LET got == GetEvents(new, limit)
                  IN  /\ Len(got) = IF limit = 0 \/ limit > Len(new)
                                    THEN Len(new) ELSE limit
                      /\ \A i \in 1..Len(got) :
                             got[i] = new[Len(new) - Len(got) + i]
                      /\ new # << >> => got[Len(got)] = new[Len(new)]]_vars

\* Two different records of one machine in the log.
C23_Witness ==
    /\ Len(global_events) = 2
    /\ global_events[1].entry_point_id = global_events[2].entry_point_id
    /\ global_events[1].entry_point_id # GLOBAL
    /\ global_events[1].end_reason # global_events[2].end_reason

\* C24: processing a signal changes only the machine addressed by the
\* signal's entry-point id, which is created on first use, or _global when
\* the signal carries none: every other machine keeps its state and its
\* open event, and no other machine appears.
C24_ProcessChangesAddressedMachineOnly ==
    [][\A ep \in EntryPointIds :
           \/ /\ DOMAIN sm' = DOMAIN sm \cup {ep}
              /\ \A other \in DOMAIN sm \ {ep} : sm'[other] = sm[other]
           \/ ~ \E inp \in TriggerInputs : ProcessSignal(ep, inp)]_vars

\* A signal of the front door was processed while _global held an alarm.
C24_Witness ==
    /\ sm[GLOBAL].state = "triggered"
    /\ "ep_front" \in DOMAIN sm
    /\ sm["ep_front"].state = "pending"
    /\ Len(sm["ep_front"].event_signals) = 1

\* C25: every machine of the coordinator, the lazily created ones included,
\* has the house mode and the user mode of the coordinator itself, whatever
\* set_modes, register_entry_point and process calls were made.
C25_MachinesShareCoordinatorModes ==
    \A ep \in DOMAIN sm :
        /\ sm[ep].house_mode = house_mode
        /\ sm[ep].user_mode = user_mode

\* A machine created after a mode change next to one that was changed by it.
C25_Witness ==
    /\ house_mode = "night_occupied"
    /\ user_mode = "alert"
    /\ DOMAIN sm = EntryPointIds
    /\ \A ep \in DOMAIN sm : sm[ep].house_mode = "night_occupied"
    /\ \A ep \in DOMAIN sm : sm[ep].user_mode = "alert"
    /\ sm["ep_front"].state # "quiet"

C27_ExpiryRecordedAsInSerialOrder ==
    /\ alarm_sm.last_transition # << >>
    /\ alarm_sm.last_transition[1] = "entry_delay_expired"
    => alarm_sm.last_transition[2] = "pending"

\* C28: a send on an enabled CloudOutputChannel makes at most max_retries
\* POSTs and stops at the first one answered with 200, 201 or 202, then
\* returns True with success_count raised by exactly 1; when every attempt
\* fails it returns False, raises failure_count by exactly 1 and places the
\* event in failed_queue.
C28_SendCountsAndQueues ==
    "cloud" \in DOMAIN output.channels /\ output.channels["cloud"].enabled =>
        \A event \in OutputEvents, responses \in ResponseSeqs :
            LET channel == output.channels["cloud"]
                sent == CloudSend(channel, event, responses)
                accepted == {k \in 1..channel.max_retries :
                                responses[k] \in {"200", "201", "202"}}
            IN  /\ sent.posts <= channel.max_retries
                /\ accepted # {} =>
                       /\ sent.ok
                       /\ sent.posts \in accepted
                       /\ \A k \in accepted : sent.posts <= k
                       /\ sent.channel.success_count =
                              channel.success_count + 1
                /\ accepted = {} =>
                       /\ ~sent.ok
                       /\ sent.channel.failure_count =
                              channel.failure_count + 1
                       /\ \E i \in DOMAIN sent.channel.failed_queue :
                              sent.channel.failed_queue[i] = event

\* C28, as the code has it: with max_retries of at least 1 the send makes
\* at most max_retries POSTs, stops at the first one answered with 200, 201
\* or 202 and then returns True with success_count raised by exactly 1 and
\* nothing else changed; when every attempt fails it returns False after
\* max_retries POSTs, raises failure_count by exactly 1 and appends the
\* event to failed_queue unless the queue already holds max_queue_size
\* events, in which case the event is dropped.  With max_retries below 1
\* no POST is made and the send returns False without counting or queueing.
C28_SendCountsAndQueuesWhileRoom ==
    "cloud" \in DOMAIN output.channels /\ output.channels["cloud"].enabled =>
        \A event \in OutputEvents, responses \in ResponseSeqs :
            LET channel == output.channels["cloud"]
                sent == CloudSend(channel, event, responses)
                accepted == {k \in 1..channel.max_retries :
                                responses[k] \in {"200", "201", "202"}}
            IN  /\ sent.posts <= channel.max_retries
                /\ accepted # {} =>
                       /\ sent.ok
                       /\ sent.posts \in accepted
                       /\ \A k \in accepted : sent.posts <= k
                       /\ sent.channel =
                              [channel EXCEPT !.success_count = @ + 1]
                /\ accepted = {} /\ channel.max_retries >= 1 =>
                       /\ ~sent.ok
                       /\ sent.posts = channel.max_retries
                       /\ sent.channel =
                              [channel EXCEPT
                                  !.failure_count = @ + 1,
                                  !.failed_queue =
                                      IF Len(@) < max_queue_size
                                      THEN Append(@, event) ELSE @]
                /\ channel.max_retries < 1 =>
                       /\ ~sent.ok
                       /\ sent.posts = 0
                       /\ sent.channel = channel

\* A cloud channel that retried, failed twice and had to drop the second
\* event because its queue was full.
C28_Witness ==
    /\ "cloud" \in DOMAIN output.channels
    /\ output.channels["cloud"].enabled
    /\ output.channels["cloud"].max_retries = MaxRetries
    /\ output.channels["cloud"].failure_count = 2
    /\ output.channels["cloud"].failed_queue = <<"evt_1">>

\* C29: send_event invokes the enabled channels only and, when at least one
\* channel is enabled, increments exactly one counter: total_events_sent if
\* every invoked channel succeeded, total_events_failed otherwise; so the
\* two counters add up to the number of send_event calls that found a
\* channel enabled.
C29_OneCounterPerSendEvent ==
    /\ output.total_events_sent + output.total_events_failed = output.calls
    /\ \A event \in OutputEvents, written \in BOOLEAN,
          responses \in ResponseSeqs :
           LET after == SendEventResult(output, event, written, responses)
               enabled == {n \in DOMAIN output.channels :
                              output.channels[n].enabled}
               sent == after.total_events_sent - output.total_events_sent
               failed == after.total_events_failed
                             - output.total_events_failed
           IN  /\ DOMAIN after.results = enabled
               /\ \A n \in DOMAIN output.channels \ enabled :
                      after.channels[n] = output.channels[n]
               /\ enabled = {} => sent = 0 /\ failed = 0
               /\ enabled # {} =>
                      IF \A n \in enabled : after.results[n]
                      THEN sent = 1 /\ failed = 0
                      ELSE sent = 0 /\ failed = 1

\* One event went out through both channels, a second one failed on the
\* only channel that was left enabled.
C29_Witness ==
    /\ output.calls = 2
    /\ output.total_events_sent = 1
    /\ output.total_events_failed = 1
    /\ DOMAIN output.channels = ChannelNames
    /\ ~output.channels["edge"].enabled
    /\ output.channels["edge"].success_count = 1
    /\ DOMAIN output.results = {"cloud"}
    /\ ~output.results["cloud"]

\* C30: the timer started when a machine enters pending runs for the delay
\* that the entry point has for the house mode in force: its away delay in
\* away, its night delay in night-occupied, its home delay in home.  An
\* entry point is created with the away delay of the request and the
\* defaults of EntryPointCreate for the other two, 15 s at night and 30 s
\* at home; an entry point without configuration has 30 s.
C30_TimerRunsForDelayOfMode ==
    \A ep \in DOMAIN sm :
        LET configured ==
                IF ep \notin DOMAIN entry_points THEN DefaultDelay
                ELSE IF house_mode = "away" THEN entry_points[ep]
                ELSE IF house_mode = "night_occupied" THEN 15
                ELSE 30
        IN  /\ sm[ep].state = "pending"
            /\ house_mode \in {"away", "night_occupied", "home"}
            /\ ep \in DOMAIN entry_timers
            /\ TimerLive(ep)
            => entry_timers[ep].delay_sec = configured

\* C31: in night-occupied, with the base delay of 15 s of the entry point, a
\* door-open at the entry point that follows an exterior person-detected by
\* less than 30 s and puts the alarm in pending sets the entry delay of the
\* alarm to the shortened value min(10, 15 \div 3) = 5 s.
C31_ContextShortensNightDelay ==
    [][LET before == pipeline.recent_activity
           after == pipeline'.recent_activity
           now == debounce'.now
       IN  /\ pipeline.house_mode = "night"
           /\ pipeline.night_sub_mode = "night_occupied"
           /\ alarm_sm.state \in {"quiet", "pre"}
           /\ alarm_sm'.state = "pending"
           /\ after # <<>>
           /\ after[Len(after)] = <<now, "entry_exit">>
           /\ \E i \in DOMAIN before :
                 /\ before[i][2] = "exterior"
                 /\ before[i][1] >= now - 30
           => alarm_sm'.entry_delay_sec = 5]_vars

C33_FromInsideIffInteriorMotionOnly ==
    \A elapsed \in InferencerElapses :
        LET t == direction_inferencer.now + elapsed
            history == InferencerRecordSignal(
                           direction_inferencer.recent_signals, t,
                           "entry_exit", "door_open")
            within(zone_type, signal_type) ==
                \E i \in DOMAIN history :
                    /\ history[i].zone_type = zone_type
                    /\ history[i].signal_type = signal_type
                    /\ history[i].timestamp >= t - lookback_seconds
                    /\ history[i].timestamp <= t
        IN  InferDirection(history, t).from_inside
            <=> /\ within("interior", "motion_active")
                /\ ~within("exterior", "person_detected")

\* A door-open without hint was inferred to come from inside while the
\* history still holds an exterior person-detected from before the window.
C33_Witness ==
    LET history == direction_inferencer.recent_signals
    IN  /\ direction_inferencer.direction # <<>>
        /\ direction_inferencer.direction[1].from_inside
        /\ direction_inferencer.direction[1].reason = "interior_motion"
        /\ history # <<>>
        /\ history[Len(history)].signal_type = "door_open"
        /\ history[Len(history)].timestamp = direction_inferencer.now
        /\ \E i \in DOMAIN history :
              /\ history[i].signal_type = "person_detected"
              /\ history[i].zone_type = "exterior"
              /\ history[i].timestamp
                     < direction_inferencer.now - lookback_seconds

\* C34: for a suspicion-light event the computed user alert level is 0 in
\* disarmed, 1 in away and night in every alarm state, and in home 0 unless
\* the policy opts in or quiet hours apply near an entry; it is never more
\* than 1.
C34_SuspicionLightLevelAtMostOne ==
    pipeline.active_event # <<>>
    /\ pipeline.active_event[1].workflow_class = "suspicion_light"
    => \A opt_in \in BOOLEAN, quiet_hours \in BOOLEAN,
          zone_type \in {"exterior", "entry_exit"} :
           LET event == pipeline.active_event[1]
               context ==
                   [workflow_class |-> event.workflow_class,
                    alarm_state |-> event.alarm_state,
                    house_mode |-> event.house_mode,
                    night_sub_mode |-> event.night_sub_mode,
                    zone_type |-> zone_type, entry_point_id |-> "none",
                    event_disposition |-> event.event_disposition,
                    has_follower_confirmation |-> FALSE,
                    has_multi_zone |-> FALSE]
               policy == [notify_suspicion_in_home |-> opt_in,
                          notify_logistics |-> FALSE,
                          night_package_protection |-> FALSE,
                          quiet_hours |-> quiet_hours]
               level == Calculate(context, policy).user_alert_level
           IN  /\ level <= 1
               /\ event.house_mode = "disarmed" => level = 0
               /\ event.house_mode \in {"away", "night"} => level = 1
               /\ event.house_mode = "home"
                  => level = IF \/ opt_in
                                \/ quiet_hours /\ zone_type = "entry_exit"
                             THEN 1 ELSE 0

\* C35: in every armed mode a glass-break that the pipeline processes puts
\* the alarm state machine in triggered in the same step, whatever the zone
\* type of the reporting sensor and whether the machine was in quiet, pre
\* or pending.
C35_GlassBreakTriggersInEveryZone ==
    \A zone \in {<<"zone_window", "perimeter", "none">>,
                 <<"zone_front", "entry_exit", "ep_front">>,
                 <<"zone_hall", "interior", "none">>,
                 <<"zone_yard", "exterior", "none">>} :
        LET signal == [signal_type |-> "glass_break", zone_id |-> zone[1],
                       zone_type |-> zone[2], entry_point_id |-> zone[3]]
            result == PipelineProcess(pipeline, alarm_sm, debounce, signal,
                                      debounce.now)
        IN  /\ pipeline.house_mode \in {"home", "away", "night"}
            /\ alarm_sm.state \in {"quiet", "pre", "pending"}
            /\ ~result.debounce.should_filter
            => result.alarm_sm.state = "triggered"

\* C36: once the alarm of the pipeline is back in quiet through a cancel, a
\* disarm or a resolve, the next signal that takes it out of quiet creates
\* a new event, whose disposition is not a canceled one; the sealed event
\* is not updated.
C36_NewEventAfterSealing ==
    [][/\ alarm_sm.state = "quiet"
       /\ alarm_sm.canceled_at \/ alarm_sm.resolved_at
       /\ pipeline.active_event # <<>>
       /\ pipeline.active_event[1].alarm_state = "quiet"
       /\ alarm_sm'.state # "quiet"
       => /\ pipeline'.event_created
          /\ pipeline'.active_event[1].event_disposition \notin
                 {"canceled_before_trigger", "canceled_after_trigger"}]_vars

\* C37: a door-open or door-close is rejected as contact bounce exactly
\* when at least door_bounce_threshold open/close signals of the sensor,
\* the current one included, lie within the last door_bounce_window_sec;
\* otherwise it is accepted.
C37_DoorRejectedIffBounce ==
    \A signal_type \in {"door_open", "door_close"}, elapsed \in Elapses :
        LET now == debounce.now + elapsed
            all == Append(debounce.history, <<now, signal_type>>)
            bounces == {i \in DOMAIN all :
                           /\ all[i][2] \in {"door_open", "door_close"}
                           /\ all[i][1] >= now - door_bounce_window_sec
                           /\ all[i][1] <= now}
        IN  Filter(debounce, signal_type, now).should_filter
            <=> Cardinality(bounces) >= door_bounce_threshold

\* The filter has just rejected a door-close after an open and another
\* transition inside the window.
C37_Witness ==
    /\ debounce.should_filter
    /\ debounce.signal_type = "door_close"
    /\ Len(debounce.history) = 3
    /\ debounce.history[1][2] = "door_open"
    /\ \A i \in DOMAIN debounce.history :
          /\ debounce.history[i][2] \in {"door_open", "door_close"}
          /\ debounce.history[i][1] >= debounce.now - door_bounce_window_sec
    /\ debounce.history[1][1] < debounce.now

\* C38: from one processed signal to the next the workflow class of the
\* active event never goes down in the order logistics < suspicion-light <
\* security-heavy < life-safety, and a signal that does not raise the class
\* leaves the class and the event type as they were.
C38_WorkflowClassNeverDowngraded ==
    [][LET priority == [logistics |-> 0, suspicion_light |-> 1,
                        security_heavy |-> 2, life_safety |-> 3]
           before == pipeline.active_event[1]
           after == pipeline'.active_event[1]
       IN  pipeline.active_event # <<>> /\ pipeline'.active_event # <<>>
           => /\ priority[after.workflow_class]
                     >= priority[before.workflow_class]
              /\ after.workflow_class = before.workflow_class
                     => after.event_type = before.event_type]_vars

\* A package delivery has just been processed into an event that a
\* security-heavy signal had raised before: the event is still
\* security-heavy.
C38_Witness ==
    /\ pipeline.active_event # <<>>
    /\ pipeline.active_event[1].workflow_class = "security_heavy"
    /\ debounce.signal_type = "package_delivered"
    /\ ~debounce.should_filter
    /\ ~pipeline.event_created
    /\ pipeline.recent_activity # <<>>
    /\ pipeline.recent_activity[Len(pipeline.recent_activity)]
           = <<debounce.now, "exterior">>

\* C39: while a machine is in pending no sensor signal restarts or extends
\* its entry-delay timer: a signal either raises the machine to triggered or
\* is recorded, and a recorded signal leaves the state, the start of
\* pending, the timer and its thread as they were.
C39_PendingTimerNeverRestarted ==
    \A ep \in DOMAIN sm, inp \in TriggerInputs :
        LET o == Process(sm[ep], ep, SMSignal(ep, inp))
        IN  sm[ep].state = "pending"
            => /\ o.m.state \in {"pending", "triggered"}
               /\ o.m.state = "pending"
                  => /\ ~o.notified
                     /\ o.m.pending_started = sm[ep].pending_started
                     /\ o.m.entry_delay_sec = sm[ep].entry_delay_sec
                     /\ OnStateChange(Timers, ep, o) = Timers

\* A second door-open was recorded during pending while the timer thread of
\* the entry point is still waiting.
C39_Witness ==
    \E ep \in DOMAIN sm :
        /\ sm[ep].state = "pending"
        /\ Len(sm[ep].event_signals) = 2
        /\ sm[ep].event_signals[1].signal_type = "door_open"
        /\ sm[ep].event_signals[2].signal_type = "door_open"
        /\ ep \in waiting
        /\ entry_timers[ep].callback

\* C40: retry_failed_events ends with failed_queue holding exactly the
\* events that were queued before the call and whose resend failed, each
\* once for each time it was queued and in their original order; the queue
\* never holds more than max_queue_size events.
C40_RetryKeepsExactlyTheFailedResends ==
    "cloud" \in DOMAIN output.channels
    => LET channel == output.channels["cloud"]
       IN  /\ Len(channel.failed_queue) <= max_queue_size
           /\ \A outcome \in RetryOutcomes :
                 LET resend_fails(event) ==
                         ~CloudSend(channel, event, outcome[event]).ok
                     retried == RetryFailedEvents(channel, outcome)
                 IN  /\ retried.channel.failed_queue
                            = SelectSeq(channel.failed_queue, resend_fails)
                     /\ retried.success_count
                            = Len(channel.failed_queue)
                                  - Len(retried.channel.failed_queue)

=============================================================================
